---- MODULE Spec2Model ----
(***************************************************************************)
(* A model of the editor's language-intelligence client:                   *)
(*   - src/src/lsp.rs        LspClient: framed JSON-RPC session, reader   *)
(*                           thread, response registry, server requests    *)
(*   - src/src/diagnostic.rs one-shot lint runner and its shared state     *)
(*   - src/src/completion.rs CompletionState                               *)
(* Bytes are modelled one by one (each a one-character string, a multi-    *)
(* byte character as several), JSON values as tagged trees.                *)
(***************************************************************************)
EXTENDS Integers, Sequences, FiniteSets, TLC

(***************************************************************************)
(* Bounds of the model.                                                    *)
(***************************************************************************)
\* frames the language server writes to its stdout in one behaviour
MaxServerFrames == 2
\* requests the client issues in one behaviour (caps next_id)
MaxRequests == 2
\* outbound notifications (didOpen / didChange) in one behaviour
MaxNotifications == 4
\* spawn_cargo_check calls in one behaviour
MaxSpawns == 3
\* messages sent before a further document notification, in a whole session
MaxSent == 2
\* items of a completion list
MaxItems == 3
\* lines in the lint command's output
MaxLines == 2
\* the furthest the documentation popup is scrolled
MaxScroll == 20
\* the longest insert text a server sends
MaxText == 4

(***************************************************************************)
(* Generic helpers.                                                        *)
(***************************************************************************)
RECURSIVE Flatten(_)
Flatten(ss) == IF ss = <<>> THEN <<>> ELSE Head(ss) \o Flatten(Tail(ss))

Range(s) == {s[i] : i \in DOMAIN s}

\* Option<T>: None or Some(x); an Option<Value> holds the tagged tree itself
None == [k |-> "none"]
Some(x) == [k |-> "some", v |-> x]
\* Option::unwrap_or
UnwrapOr(opt, default) == IF opt = None THEN default ELSE opt.v

(***************************************************************************)
(* serde_json::Value as a tagged tree.  An object is a record from keys    *)
(* to values; a string is a sequence of characters.                        *)
(***************************************************************************)
JNull == [k |-> "null"]
JInt(n) == [k |-> "int", v |-> n]
JStr(s) == [k |-> "str", v |-> s]
JBool(b) == [k |-> "bool", v |-> b]
JArr(a) == [k |-> "arr", v |-> a]
JObj(f) == [k |-> "obj", v |-> f]

\* Value::get(key): Some(member) on an object holding the key, else None
Get(json, key) ==
    IF json.k = "obj" /\ key \in DOMAIN json.v THEN json.v[key] ELSE None

\* Value::as_i64()
AsI64(json) == IF json.k = "int" THEN Some(json.v) ELSE None

\* json["id"]: indexing yields Null where get() yields None
Index(json, key) == IF Get(json, key) = None THEN JNull ELSE Get(json, key)

(***************************************************************************)
(* Bytes.                                                                  *)
(***************************************************************************)
CR == "\r"
LF == "\n"
CRLF == <<CR, LF>>
Quote == "\""
Backslash == "\\"
Whitespace == {" ", "\t", CR, LF}
DigitChars == <<"0", "1", "2", "3", "4", "5", "6", "7", "8", "9">>

\* the UTF-8 encoding of a character: two bytes for U+00E9 (e acute), one otherwise
Utf8(c) == IF c = "U+00E9" THEN <<"xC3", "xA9">> ELSE <<c>>

\* serde_json's string escaping, then UTF-8
EscapeChar(c) ==
    CASE c = Quote -> <<Backslash, Quote>>
      [] c = Backslash -> <<Backslash, Backslash>>
      [] c = LF -> <<Backslash, "n">>
      [] c = CR -> <<Backslash, "r">>
      [] OTHER -> Utf8(c)

RECURSIVE Digits(_)
\* decimal rendering of a natural number ({} of format!, itoa of serde_json)
Digits(n) ==
    IF n < 10 THEN <<DigitChars[n + 1]>>
    ELSE Digits(n \div 10) \o <<DigitChars[(n % 10) + 1]>>

DigitValue(c) == CHOOSE d \in 0..9 : DigitChars[d + 1] = c

RECURSIVE DecimalValue(_)
DecimalValue(s) ==
    IF s = <<>> THEN 0
    ELSE 10 * DecimalValue(SubSeq(s, 1, Len(s) - 1)) + DigitValue(s[Len(s)])

\* str::parse::<usize>(): digits, optionally after one '+'; None on anything else
ParseUsize(s) ==
    LET d == IF s # <<>> /\ s[1] = "+" THEN Tail(s) ELSE s
    IN  IF d # <<>> /\ \A i \in DOMAIN d : d[i] \in Range(DigitChars)
        THEN Some(DecimalValue(d)) ELSE None

\* the characters of the object keys in use
KeyChars == [
  capabilities |-> <<"c", "a", "p", "a", "b", "i", "l", "i", "t", "i", "e", "s">>,
  character |-> <<"c", "h", "a", "r", "a", "c", "t", "e", "r">>,
  column_start |-> <<"c", "o", "l", "u", "m", "n", "_", "s", "t", "a", "r", "t">>,
  file_name |-> <<"f", "i", "l", "e", "_", "n", "a", "m", "e">>,
  is_primary |-> <<"i", "s", "_", "p", "r", "i", "m", "a", "r", "y">>,
  level |-> <<"l", "e", "v", "e", "l">>,
  line_start |-> <<"l", "i", "n", "e", "_", "s", "t", "a", "r", "t">>,
  message |-> <<"m", "e", "s", "s", "a", "g", "e">>,
  reason |-> <<"r", "e", "a", "s", "o", "n">>,
  spans |-> <<"s", "p", "a", "n", "s">>,
  configuration |-> <<"c", "o", "n", "f", "i", "g", "u", "r", "a", "t", "i", "o", "n">>,
  contentChanges |-> <<"c", "o", "n", "t", "e", "n", "t", "C", "h", "a", "n", "g", "e", "s">>,
  documentation |-> <<"d", "o", "c", "u", "m", "e", "n", "t", "a", "t", "i", "o", "n">>,
  error |-> <<"e", "r", "r", "o", "r">>,
  id |-> <<"i", "d">>,
  items |-> <<"i", "t", "e", "m", "s">>,
  jsonrpc |-> <<"j", "s", "o", "n", "r", "p", "c">>,
  label |-> <<"l", "a", "b", "e", "l">>,
  languageId |-> <<"l", "a", "n", "g", "u", "a", "g", "e", "I", "d">>,
  line |-> <<"l", "i", "n", "e">>,
  method |-> <<"m", "e", "t", "h", "o", "d">>,
  params |-> <<"p", "a", "r", "a", "m", "s">>,
  position |-> <<"p", "o", "s", "i", "t", "i", "o", "n">>,
  processId |-> <<"p", "r", "o", "c", "e", "s", "s", "I", "d">>,
  result |-> <<"r", "e", "s", "u", "l", "t">>,
  text |-> <<"t", "e", "x", "t">>,
  textDocument |-> <<"t", "e", "x", "t", "D", "o", "c", "u", "m", "e", "n", "t">>,
  uri |-> <<"u", "r", "i">>,
  version |-> <<"v", "e", "r", "s", "i", "o", "n">>,
  workspace |-> <<"w", "o", "r", "k", "s", "p", "a", "c", "e">>]

\* serde_json's Map is a BTreeMap: members are written in key order
KeyOrder == <<"capabilities", "character", "column_start", "configuration",
              "contentChanges", "documentation", "error", "file_name", "id",
              "is_primary", "items", "jsonrpc", "label", "languageId",
              "level", "line", "line_start", "message", "method", "params",
              "position", "processId", "reason", "result", "spans", "text",
              "textDocument", "uri", "version", "workspace">>

RECURSIVE Join(_)
\* the members or elements, separated by commas
Join(parts) ==
    IF parts = <<>> THEN <<>>
    ELSE IF Len(parts) = 1 THEN parts[1]
    ELSE parts[1] \o <<",">> \o Join(Tail(parts))

RECURSIVE to_string(_)
\* serde_json::to_string: the compact rendering, as bytes
to_string(json) ==
    CASE json.k = "null" -> <<"n", "u", "l", "l">>
      [] json.k = "bool" -> IF json.v THEN <<"t", "r", "u", "e">>
                                       ELSE <<"f", "a", "l", "s", "e">>
      [] json.k = "int" -> Digits(json.v)
      [] json.k = "str" ->
            <<Quote>> \o Flatten([i \in DOMAIN json.v |-> EscapeChar(json.v[i])])
                      \o <<Quote>>
      [] json.k = "arr" ->
            <<"[">> \o Join([i \in DOMAIN json.v |-> to_string(json.v[i])]) \o <<"]">>
      [] json.k = "obj" ->
            LET keys == SelectSeq(KeyOrder, LAMBDA key : key \in DOMAIN json.v)
            IN  <<"{">>
                \o Join([i \in DOMAIN keys |->
                          <<Quote>> \o KeyChars[keys[i]] \o <<Quote, ":">>
                          \o to_string(json.v[keys[i]])])
                \o <<"}">>

(***************************************************************************)
(* Protocol transport: the reader thread's framing loop, lsp.rs 42-67.     *)
(***************************************************************************)
HeaderPrefix == <<"C", "o", "n", "t", "e", "n", "t", "-", "L", "e", "n", "g", "t", "h", ":", " ">>

\* String::from_utf8 on what read_line read: a lead byte needs its continuation
Utf8Valid(bytes) ==
    \A i \in DOMAIN bytes :
        /\ bytes[i] = "xC3" => (i < Len(bytes) /\ bytes[i + 1] = "xA9")
        /\ bytes[i] = "xA9" => (i > 1 /\ bytes[i - 1] = "xC3")

\* BufRead::read_line(...).unwrap_or(0): through the next LF, or to end of
\* stream; "eof" stands for 0 (nothing left, or an error), "block" for a read
\* that has to wait for more bytes
ReadLine(buf, eof) ==
    LET nl == {i \in DOMAIN buf : buf[i] = LF}
        n == IF nl # {} THEN CHOOSE i \in nl : \A j \in nl : i <= j ELSE Len(buf)
    IN  IF nl = {} /\ ~eof THEN [st |-> "block"]
        ELSE IF n = 0 \/ ~Utf8Valid(SubSeq(buf, 1, n)) THEN [st |-> "eof"]
        ELSE [st |-> "line", line |-> SubSeq(buf, 1, n),
              rest |-> SubSeq(buf, n + 1, Len(buf))]

\* str::trim
Trim(s) ==
    LET keep == {i \in DOMAIN s : s[i] \notin Whitespace}
    IN  IF keep = {} THEN <<>>
        ELSE SubSeq(s, CHOOSE i \in keep : \A j \in keep : i <= j,
                       CHOOSE i \in keep : \A j \in keep : i >= j)

\* str::strip_prefix: Some(rest) or None
StripPrefix(s, prefix) ==
    IF Len(s) >= Len(prefix) /\ SubSeq(s, 1, Len(prefix)) = prefix
    THEN Some(SubSeq(s, Len(prefix) + 1, Len(s))) ELSE None

RECURSIVE HeaderLoop(_, _, _)
\* the inner loop, lsp.rs 44-56: header lines up to the empty one
HeaderLoop(buf, eof, content_length) ==
    LET r == ReadLine(buf, eof)
    IN  IF r.st # "line" THEN [st |-> r.st]
        ELSE LET header == Trim(r.line)
                 len == StripPrefix(header, HeaderPrefix)
             IN  IF header = <<>>
                 THEN [st |-> "done", content_length |-> content_length,
                       rest |-> r.rest]
                 ELSE HeaderLoop(r.rest, eof,
                        IF len = None THEN content_length
                        ELSE UnwrapOr(ParseUsize(len.v), 0))

\* (mutant of Frame)  the length counted in characters
Frame_in_chars(body) ==
    HeaderPrefix \o Digits(Cardinality({i \in DOMAIN body : body[i] # "xA9"}))
                 \o CRLF \o CRLF \o body

\* what send_raw writes for one body, lsp.rs 269-274: the header with the
\* body's length in bytes, an empty line, the body
Frame(body) == HeaderPrefix \o Digits(Len(body)) \o CRLF \o CRLF \o body

(***************************************************************************)
(* The language server (the environment): what it may write to its stdout. *)
(* The n-th frame carries n as its payload, so that every message is       *)
(* distinguishable from every other.                                       *)
(***************************************************************************)
S_2_0 == <<"2", ".", "0">>
\* ids the server puts on what it sends: integers and a string
ResponseIds == {JInt(i) : i \in 1..MaxRequests} \cup {JStr(<<"x">>)}
RequestIds == {JInt(7), JStr(<<"x">>)}

Response(id, n) == JObj([jsonrpc |-> JStr(S_2_0), id |-> id, result |-> JInt(n)])
ErrorResponse(id, n) == JObj([jsonrpc |-> JStr(S_2_0), id |-> id, error |-> JInt(n)])
ServerRequest(id, n) ==
    JObj([jsonrpc |-> JStr(S_2_0), id |-> id, method |-> JStr(<<"c", "f", "g">>),
          params |-> JInt(n)])
ServerNotification(n) ==
    JObj([jsonrpc |-> JStr(S_2_0), method |-> JStr(<<"l", "o", "g">>),
          params |-> JInt(n)])

\* the reply to a completionItem/resolve: the item with its documentation
ResolveResponse(id, n) ==
    JObj([jsonrpc |-> JStr(S_2_0), id |-> id,
          result |-> JObj([documentation |-> JStr(<<"d">> \o Digits(n))])])

ServerMessages(n) ==
    {Response(id, n) : id \in ResponseIds}
    \cup {ErrorResponse(JInt(1), n)}
    \cup {ServerRequest(id, n) : id \in RequestIds}
    \cup {ServerNotification(n)}

\* every JSON text that may arrive
\* payloads of every shape: scalars, strings with escapes and with
\* two-byte characters, arrays and objects nested in one another
Payloads ==
    { JNull, JInt(10), JArr(<<>>),
      JStr(<<"U+00E9">>),
      JStr(<<"U+00E9", "U+00E9", "U+00E9", "U+00E9">>),
      JStr(<<Quote, Backslash, LF>>),
      JArr(<<JInt(1), JArr(<<JNull, JBool(TRUE)>>)>>),
      JObj([id |-> JInt(1), result |-> JNull]),
      JObj([text |-> JStr(<<"U+00E9", LF>>)]),
      JObj([params |-> JObj([items |->
               JArr(<<JObj([label |-> JStr(<<"n", "U+00E9", "e">>)])>>)])]) }

JsonUniverse ==
    UNION {ServerMessages(n) \cup {ResolveResponse(JInt(i), n) : i \in 1..MaxRequests} :
             n \in 1..MaxServerFrames}
        \cup Payloads

\* the JSON texts that may arrive, each with the value it is the text of
JsonTexts == {[text |-> to_string(json), json |-> json] : json \in JsonUniverse}

\* serde_json::from_slice: the value whose rendering the bytes are, None (Err)
\* for bytes that are no JSON text
from_slice(body) ==
    LET hit == {t \in JsonTexts : t.text = body}
    IN  IF hit = {} THEN None ELSE (CHOOSE t \in hit : TRUE).json

\* header blocks without a valid Content-Length: another letter case, a length
\* that is no number, no such header at all
LowerHeaderPrefix == <<"c", "o", "n", "t", "e", "n", "t", "-", "l", "e", "n", "g", "t", "h", ":", " ">>
BadHeaderFrames(body) ==
    { LowerHeaderPrefix \o Digits(Len(body)) \o CRLF \o CRLF \o body,
      HeaderPrefix \o <<"x">> \o CRLF \o CRLF \o body,
      CRLF \o body }

\* a body of the announced length that is no JSON text
BadJsonBody == <<"{", "]">>

\* the frames the server may write as its n-th, each with what it is
FramesAt(n) ==
    {[kind |-> "good", json |-> m, bytes |-> Frame(to_string(m))] :
        m \in ServerMessages(n)}
    \cup {[kind |-> "bad_header", json |-> ServerNotification(n), bytes |-> b] :
            b \in BadHeaderFrames(to_string(ServerNotification(n)))}
    \cup {[kind |-> "bad_json", json |-> None, bytes |-> Frame(BadJsonBody)]}

ServerFrames == [n \in 1..MaxServerFrames |-> FramesAt(n)]

\* (mutant of receive_one)  a body that does not parse ends the reader
receive_one_parse_error_fatal(buf, eof) ==
    LET h == HeaderLoop(buf, eof, 0)
    IN  IF h.st = "block" THEN [st |-> "block"]
        ELSE IF h.st = "eof" THEN [st |-> "exit"]
        ELSE IF h.content_length = 0 THEN [st |-> "skip", rest |-> h.rest]
        ELSE IF Len(h.rest) < h.content_length
             THEN [st |-> IF eof THEN "exit" ELSE "block"]
        ELSE LET body == SubSeq(h.rest, 1, h.content_length)
                 rest == SubSeq(h.rest, h.content_length + 1, Len(h.rest))
                 json == from_slice(body)
             IN  IF json = None THEN [st |-> "exit"]
                 ELSE [st |-> "msg", rest |-> rest, json |-> json]

\* one pass of the reader's outer loop, lsp.rs 42-67, over the bytes at hand:
\*   "block" the read waits for bytes;  "exit" return (EOF, read error);
\*   "skip"  continue (no length, or a body that does not parse);
\*   "msg"   a message was parsed
receive_one(buf, eof) ==
    LET h == HeaderLoop(buf, eof, 0)
    IN  IF h.st = "block" THEN [st |-> "block"]
        ELSE IF h.st = "eof" THEN [st |-> "exit"]
        ELSE IF h.content_length = 0 THEN [st |-> "skip", rest |-> h.rest]
        ELSE IF Len(h.rest) < h.content_length
             THEN [st |-> IF eof THEN "exit" ELSE "block"]
        ELSE LET body == SubSeq(h.rest, 1, h.content_length)
                 rest == SubSeq(h.rest, h.content_length + 1, Len(h.rest))
                 json == from_slice(body)
             IN  IF json = None THEN [st |-> "skip", rest |-> rest]
                 ELSE [st |-> "msg", rest |-> rest, json |-> json]

(***************************************************************************)
(* Paths and the files on disk, as the lint runner sees them.              *)
(***************************************************************************)
\* texts of the lint run
S_ERROR == <<"e", "r", "r", "o", "r">>
S_WARNING == <<"w", "a", "r", "n", "i", "n", "g">>
S_COMPILER_MESSAGE ==
    <<"c", "o", "m", "p", "i", "l", "e", "r", "-", "m", "e", "s", "s", "a", "g", "e">>
S_CARGO_CHECK_FAILED ==
    <<"c", "a", "r", "g", "o", " ", "c", "h", "e", "c", "k", " ",
      "f", "a", "i", "l", "e", "d", ":", " ">>

\* the files that exist, by their canonical absolute paths
Files ==
    { <<"/", "p", "/", "C", "a", "r", "g", "o", ".", "t", "o", "m", "l">>,
      <<"/", "p", "/", "s", "/", "C", "a", "r", "g", "o", ".", "t", "o", "m", "l">>,
      <<"/", "p", "/", "a", ".", "r", "s">>,
      <<"/", "p", "/", "b", ".", "r", "s">> }

\* the file names a span may carry: the edited file's and another file's,
\* relative to the project directory as rustc prints them; one of no file;
\* one that names the edited file from one directory too high
Name ==
    [a |-> <<"a", ".", "r", "s">>, b |-> <<"b", ".", "r", "s">>,
     gone |-> <<"g", "o", "n", "e", ".", "r", "s">>,
     p_a |-> <<"p", "/", "a", ".", "r", "s">>]

\* the file being edited
TargetFile == <<"/", "p", "/", "a", ".", "r", "s">>

IsAbsolute(path) == path # <<>> /\ path[1] = "/"

RECURSIVE Components(_)
\* Path::components: the names between the separators
Components(path) ==
    IF path = <<>> THEN <<>>
    ELSE IF path[1] = "/" THEN Components(Tail(path))
    ELSE LET seps == {i \in DOMAIN path : path[i] = "/"}
             end == IF seps = {} THEN Len(path) + 1
                    ELSE CHOOSE i \in seps : \A j \in seps : i <= j
         IN  <<SubSeq(path, 1, end - 1)>> \o Components(SubSeq(path, end, Len(path)))

\* Path::join: an absolute path replaces the base
PathJoin(base, path) ==
    IF IsAbsolute(path) THEN path ELSE base \o <<"/">> \o path

\* Path::parent: None for the root
Parent(path) ==
    LET seps == {i \in DOMAIN path : path[i] = "/"}
        last == CHOOSE i \in seps : \A j \in seps : j <= i
    IN  IF seps = {} \/ path = <<"/">> THEN None
        ELSE IF last = 1 THEN Some(<<"/">>)
        ELSE Some(SubSeq(path, 1, last - 1))

\* fs::canonicalize: the path of an existing file, Err (None) otherwise
canonicalize(path) == IF path \in Files THEN Some(path) ELSE None

\* Path::ends_with: child's components are the last ones of path (all of
\* them, root included, when child is absolute)
EndsWith(path, child) ==
    LET pc_ == Components(path)
        cc == Components(child)
    IN  IF IsAbsolute(child) THEN IsAbsolute(path) /\ pc_ = cc
        ELSE /\ Len(cc) <= Len(pc_)
             /\ SubSeq(pc_, Len(pc_) - Len(cc) + 1, Len(pc_)) = cc

RECURSIVE WalkUp(_)
\* diagnostic.rs 54-64: the nearest directory, from dir up, holding Cargo.toml
WalkUp(dir) ==
    IF dir = None THEN None
    ELSE IF PathJoin(dir.v, <<"C", "a", "r", "g", "o", ".", "t", "o", "m", "l">>) \in Files THEN dir
    ELSE WalkUp(Parent(dir.v))

\* diagnostic.rs 52-65
find_project_dir(file) == WalkUp(Parent(file))

\* diagnostic.rs 152-158: the directory the lint command runs in: the
\* project directory when one was found; else Command::current_dir is not
\* called and the child inherits the directory the editor runs in
command_dir(file, cwd) ==
    LET project_dir == find_project_dir(file)
    IN  IF project_dir # None THEN project_dir.v ELSE cwd

\* directories, and files a user may edit (canonical paths, editor.rs 44-46)
Dirs ==
    { <<"/">>, <<"/", "p">>, <<"/", "p", "s">>, <<"/", "p", "s", "/", "t">>,
      <<"/", "p", "/", "s">>, <<"/", "p", "/", "s", "/", "t">>,
      <<"/", "p", "/", "u">>, <<"/", "q">>, <<"/", "q", "/", "r">> }
EditedFiles ==
    {(IF d = <<"/">> THEN <<>> ELSE d) \o <<"/", "m", ".", "r", "s">> : d \in Dirs}

(***************************************************************************)
(* The lint command's output and parse_diagnostics, diagnostic.rs 67-145.  *)
(***************************************************************************)
\* Value::as_str, as_array, as_u64
AsStr(json) == IF json.k = "str" THEN Some(json.v) ELSE None
AsArray(json) == IF json.k = "arr" THEN Some(json.v) ELSE None
AsU64(json) == IF json.k = "int" /\ json.v >= 0 THEN Some(json.v) ELSE None

\* a span of a compiler message
Span(file_name, is_primary, line_start, column_start) ==
    JObj([file_name |-> JStr(file_name), is_primary |-> JBool(is_primary),
          line_start |-> JInt(line_start), column_start |-> JInt(column_start)])
\* a span that names no file
SpanNoFile(line_start, column_start) ==
    JObj([is_primary |-> JBool(TRUE), line_start |-> JInt(line_start),
          column_start |-> JInt(column_start)])

\* a compiler-message record, one line of cargo's JSON output
CompilerMessage(level, text, spans) ==
    JObj([reason |-> JStr(S_COMPILER_MESSAGE),
          message |-> JObj([level |-> JStr(level), message |-> JStr(text),
                            spans |-> JArr(spans)])])

\* the records the lint command may print
CargoRecords ==
    << CompilerMessage(S_ERROR,   <<"m", "1">>, <<Span(Name.a, TRUE, 3, 5)>>),
       CompilerMessage(S_WARNING, <<"m", "2">>, <<Span(Name.a, TRUE, 1, 1)>>),
       CompilerMessage(S_WARNING, <<"m", "3">>, <<>>),
       CompilerMessage(S_ERROR,   <<"m", "4">>, <<>>),
       CompilerMessage(S_WARNING, <<"m", "5">>, <<Span(Name.b, TRUE, 2, 4)>>),
       CompilerMessage(S_ERROR,   <<"m", "6">>, <<Span(Name.b, TRUE, 2, 4)>>),
       CompilerMessage(S_WARNING, <<"m", "7">>, <<SpanNoFile(2, 4)>>),
       CompilerMessage(S_ERROR,   <<"m", "8">>, <<SpanNoFile(2, 4)>>),
       CompilerMessage(S_ERROR,   <<"m", "9">>, <<Span(Name.gone, TRUE, 2, 4)>>),
       CompilerMessage(S_WARNING, <<"m", "a">>, <<Span(Name.p_a, TRUE, 2, 4)>>),
       CompilerMessage(S_WARNING, <<"m", "b">>,
                       <<Span(Name.b, FALSE, 2, 4), Span(Name.a, TRUE, 3, 5)>>),
       CompilerMessage(<<"n", "o", "t", "e">>, <<"m", "c">>,
                       <<Span(Name.a, TRUE, 3, 5)>>),
       JObj([reason |-> JStr(<<"b", "u", "i", "l", "d", "-", "f", "i", "n",
                               "i", "s", "h", "e", "d">>)]) >>

\* the JSON texts of these records, each with the value it is the text of
CargoTexts == {[text |-> to_string(CargoRecords[i]), json |-> CargoRecords[i]] :
                 i \in DOMAIN CargoRecords}

\* a line that is no JSON text (cargo's human-readable chatter)
GarbageLine == <<"w", "a", "r", "n", "i", "n", "g", ":", " ", "x">>

\* serde_json::from_str: the value whose text the line is, None (Err) else
from_str(line) ==
    LET hit == {t \in CargoTexts : t.text = line}
    IN  IF hit = {} THEN None ELSE (CHOOSE t \in hit : TRUE).json

RECURSIVE Lines(_)
\* str::lines: the text between line feeds, without a trailing carriage
\* return; no empty last line
Lines(text) ==
    IF text = <<>> THEN <<>>
    ELSE LET lfs == {i \in DOMAIN text : text[i] = LF}
             end == IF lfs = {} THEN Len(text) + 1
                    ELSE CHOOSE i \in lfs : \A j \in lfs : i <= j
             line == SubSeq(text, 1, end - 1)
             bare == IF line # <<>> /\ line[Len(line)] = CR
                     THEN SubSeq(line, 1, Len(line) - 1) ELSE line
         IN  <<bare>> \o Lines(SubSeq(text, end + 1, Len(text)))

\* diagnostic.rs 139-140: the line (saturating_sub(1)) and the column stored
Line(ln) ==
    IF ln = None THEN None ELSE Some(IF ln.v >= 1 THEN ln.v - 1 ELSE 0)
Column(col) == col

\* diagnostic.rs 106-116: does the record belong to the target file
Matches(level, span_file, target_file, project_dir) ==
    IF span_file # None
    THEN LET resolved ==
                 IF project_dir # None
                 THEN canonicalize(PathJoin(project_dir.v, span_file.v))
                 ELSE canonicalize(span_file.v)
         IN  IF resolved = None THEN EndsWith(target_file, span_file.v)
             ELSE resolved.v = target_file
    ELSE level = "Error"

\* diagnostic.rs 102-142: the first span decides whether the record is the
\* target file's, and gives the place
span_diagnostic(level, msg, span, target_file, project_dir) ==
    IF ~Matches(level, AsStr(Get(span, "file_name")), target_file, project_dir)
    THEN None
    ELSE Some([level |-> level, message |-> msg,
               line |-> Line(AsU64(Get(span, "line_start"))),
               column |-> Column(AsU64(Get(span, "column_start")))])

\* diagnostic.rs 102: message.spans.as_array().first()
FirstSpan(spans) == IF spans = None \/ spans.v = <<>> THEN None ELSE spans.v[1]

\* diagnostic.rs 89-93: the severity, "continue" for any other level
Level(level_str) ==
    IF level_str = S_ERROR THEN "Error"
    ELSE IF level_str = S_WARNING THEN "Warning" ELSE "continue"

\* diagnostic.rs 88-142: the diagnostic of a compiler message
message_diagnostic(level, message, target_file, project_dir) ==
    IF level = "continue" THEN None
    ELSE span_diagnostic(level, UnwrapOr(AsStr(Get(message, "message")), <<>>),
                         FirstSpan(AsArray(Get(message, "spans"))),
                         target_file, project_dir)

\* diagnostic.rs 80-142: the diagnostic of a record
record_diagnostic(json, target_file, project_dir) ==
    IF json = None THEN None
    ELSE IF AsStr(Get(json, "reason")) # Some(S_COMPILER_MESSAGE)
    THEN None
    ELSE IF Get(json, "message") = None THEN None
    ELSE message_diagnostic(
             Level(UnwrapOr(AsStr(Get(Get(json, "message"), "level")), <<>>)),
             Get(json, "message"), target_file, project_dir)

\* (mutant of parse_diagnostics)  a line that is no JSON ends the loop
parse_diagnostics_until_bad_line(output, target_file, project_dir) ==
    LET lines == Lines(output)
        bad == {i \in DOMAIN lines : from_str(lines[i]) = None}
        upto == IF bad = {} THEN Len(lines)
                ELSE (CHOOSE i \in bad : \A j \in bad : i <= j) - 1
        found == [i \in 1..upto |->
                    record_diagnostic(from_str(lines[i]), target_file,
                                      project_dir)]
        kept == SelectSeq(found, LAMBDA d : d # None)
    IN  [i \in DOMAIN kept |-> kept[i].v]

\* diagnostic.rs 67-145: the diagnostics of the lines, those where the loop
\* continues left out
parse_diagnostics(output, target_file, project_dir) ==
    LET lines == Lines(output)
        found == [i \in DOMAIN lines |->
                    record_diagnostic(from_str(lines[i]), target_file,
                                      project_dir)]
        kept == SelectSeq(found, LAMBDA d : d # None)
    IN  [i \in DOMAIN kept |-> kept[i].v]

(***************************************************************************)
(* State.                                                                  *)
(***************************************************************************)
VARIABLES
    \* LspClient, lsp.rs 12-20
    writer,            \* the BufWriter's buffer over the server's stdin
    responses,         \* the response registry: id -> message
    server_requests,   \* server requests awaiting their reply
    next_id,
    uri,
    version,
    \* the subprocess's pipes
    server_stdin,      \* bytes written (flushed) to the server, in order
    server_stdout,     \* bytes the server wrote that the reader has not read
    server_exited,     \* the server has exited: its pipes are closed
    \* the reader thread, lsp.rs 40-89
    reader_pc,         \* "read" | "classify" | "exited"
    reader_json,       \* the message parsed, between parse and classification
    \* the thread that owns the LspClient
    pc,                \* "idle" | "ack" (in process_server_requests) | "wait"
                       \* | "dropped" (the session is gone)
    reqs,              \* process_server_requests: requests taken, not yet answered
    caller,            \* the operation that runs process_server_requests
    wait_id,           \* wait_response: the id waited for
    elapsed,           \* wait_response: "within" the timeout, or "over" it
    \* history
    server_log,        \* the frames the server wrote, in order
    reader_log,        \* the messages the reader parsed, in order
    enqueued,          \* the server requests the reader pushed, in order
    sent,              \* the messages handed to send_raw, in call order
    last_get,          \* the latest get_response call
    last_wait,         \* the latest wait_response call that returned
    drained,           \* the latest process_server_requests call: its caller,
                       \* the queue it found, the messages sent before it
    delivered,         \* the responses get_response returned, in order
    \* DiagnosticState behind its Arc<Mutex<..>>, diagnostic.rs 23-27
    diagnostics,
    is_running,
    runners,           \* the threads spawn_cargo_check started, each at
                       \* "start" | "check" (cargo runs) | "done"
    spawn_log,         \* history: the spawn_cargo_check calls
    run_log,           \* history: the runs that completed, each with what
                       \* cargo did and what the run published
    \* the editor's CompletionState, completion.rs 12-20
    completion,
    doc_for,           \* history: the selection index doc was resolved for
    resolve_log,       \* history: the resolve replies processed
    \* a function applied to an input
    fn_in,             \* the input
    fn_out,            \* what the function made of it, None before
    \* the three Mutexes and the threads that take them, statement by statement
    holder,            \* per Mutex: the thread holding its guard, or "free"
    at,                \* per thread: the statement it is about to run
    \* the Editor, editor.rs 31-40
    mode,              \* the EditorMode value
    buffers,           \* the open buffers: the path of each, in order
    active_buffer,     \* None, or Some(i) with i counted from 0
    process,           \* "running" | "panicked" (a handler panicked)
                       \* | "failed" (a handler returned an error)
    last_key           \* history: the latest key event and the mode it met

wireVars == <<writer, server_stdin, sent, next_id>>
docVars == <<uri, version>>
registryVars == <<responses, last_get, delivered>>
queueVars == <<server_requests, enqueued>>
serverVars == <<server_stdout, server_exited, server_log>>
readerVars == <<reader_pc, reader_json, reader_log>>
mainVars == <<pc, reqs, caller, wait_id, elapsed, last_wait, drained>>

lspVars == <<wireVars, docVars, registryVars, queueVars, serverVars, readerVars,
             mainVars>>

diagVars == <<diagnostics, is_running, runners, spawn_log, run_log>>
complVars == <<completion, doc_for, resolve_log>>

fnVars == <<fn_in, fn_out>>

lockVars == <<holder, at>>

editorVars == <<mode, buffers, active_buffer, process, last_key>>

vars == <<lspVars, diagVars, complVars, fnVars, lockVars, editorVars>>

EmptyMap == [id \in {} |-> None]

\* the documents of the session and their contents
Uris == {<<"f", "i", "l", "e", ":", "/", "/", "/", "a">>,
         <<"f", "i", "l", "e", ":", "/", "/", "/", "b">>}
Texts == {<<"U+00E9", LF>>}

\* LspClient::start, lsp.rs 23-102
InitLsp ==
    /\ writer = <<>>
    /\ responses = EmptyMap
    /\ server_requests = <<>>
    /\ next_id = 1
    /\ uri = <<"f", "i", "l", "e", ":", "/", "/", "/", "a">>
    /\ version = 0
    /\ server_stdin = <<>>
    /\ server_stdout = <<>>
    /\ server_exited = FALSE
    /\ reader_pc = "read"
    /\ reader_json = None
    /\ pc = "idle"
    /\ reqs = <<>>
    /\ caller = None
    /\ wait_id = 0
    /\ elapsed = "within"
    /\ server_log = <<>>
    /\ reader_log = <<>>
    /\ enqueued = <<>>
    /\ sent = <<>>
    /\ last_get = None
    /\ last_wait = None
    /\ drained = None
    /\ delivered = <<>>

(***************************************************************************)
(* The server.                                                             *)
(***************************************************************************)
ServerWrite(f) ==
    /\ ~server_exited
    /\ Len(server_log) < MaxServerFrames
    /\ server_stdout' = server_stdout \o f.bytes
    /\ server_log' = Append(server_log, [kind |-> f.kind, json |-> f.json])
    /\ UNCHANGED <<server_exited, wireVars, docVars, registryVars, queueVars,
                   readerVars, mainVars>>
    /\ UNCHANGED <<diagVars, complVars, fnVars, lockVars, editorVars>>

\* the frames the server may write next
NextFrames ==
    IF Len(server_log) < MaxServerFrames THEN ServerFrames[Len(server_log) + 1]
    ELSE {}

\* an arbitrary server: any frame at any time
ServerSend == \E f \in NextFrames : ServerWrite(f)

\* the ids of the requests the client has issued / the server has answered
Issued == 1..(next_id - 1)
Answered == {i \in Issued : \E j \in DOMAIN server_log :
                server_log[j].kind = "good"
                /\ Get(server_log[j].json, "method") = None
                /\ Index(server_log[j].json, "id") = JInt(i)}

\* the requests the client has sent
IsRequest(m) == Get(m, "id") # None /\ Get(m, "method") # None
RequestsSent == SelectSeq(sent, IsRequest)

\* what the server answers to the request req in its n-th frame
ReplyTo(req, n) ==
    IF Get(req, "method") = JStr(<<"c", "o", "m", "p", "l", "e", "t", "i", "o", "n", "I", "t", "e", "m", "/", "r", "e", "s", "o", "l", "v", "e">>)
    THEN ResolveResponse(Index(req, "id"), n)
    ELSE Response(Index(req, "id"), n)

\* a server that keeps to the protocol: one response per request received
ServerReply ==
    \E i \in Issued \ Answered :
        /\ Len(server_log) < MaxServerFrames
        /\ LET json == ReplyTo(RequestsSent[i], Len(server_log) + 1)
           IN  ServerWrite([kind |-> "good", json |-> json,
                            bytes |-> Frame(to_string(json))])

\* ... and that asks the client something now and then
ServerAsk ==
    \E f \in NextFrames :
        /\ f.kind = "good"
        /\ Get(f.json, "method") # None
        /\ Get(f.json, "id") # None
        /\ ServerWrite(f)

ServerExit ==
    /\ ~server_exited
    /\ server_exited' = TRUE
    /\ UNCHANGED <<server_stdout, server_log, wireVars, docVars, registryVars,
                   queueVars, readerVars, mainVars>>
    /\ UNCHANGED <<diagVars, complVars, fnVars, lockVars, editorVars>>

(***************************************************************************)
(* The reader thread, lsp.rs 40-89.                                        *)
(***************************************************************************)
\* lsp.rs 42-67: frame and parse one message, without any lock held
ReaderReceive ==
    /\ reader_pc = "read"
    /\ LET r == receive_one(server_stdout, server_exited)
       IN  /\ r.st # "block"
           /\ CASE r.st = "exit" ->
                     /\ reader_pc' = "exited"
                     /\ server_stdout' = <<>>
                     /\ UNCHANGED <<reader_json, reader_log>>
                [] r.st = "skip" ->
                     /\ server_stdout' = r.rest
                     /\ UNCHANGED <<reader_pc, reader_json, reader_log>>
                [] r.st = "msg" ->
                     /\ server_stdout' = r.rest
                     /\ reader_json' = r.json
                     /\ reader_pc' = "classify"
                     /\ reader_log' = Append(reader_log, r.json)
    /\ UNCHANGED <<server_exited, server_log, wireVars, docVars, registryVars,
                   queueVars, mainVars>>
    /\ UNCHANGED <<diagVars, complVars, fnVars, lockVars, editorVars>>

\* (mutant of insert)  the registry as a list: the message goes into the
\* first free slot
insert_at_free_slot(map, id, json) ==
    LET slot == CHOOSE n \in 1..(Cardinality(DOMAIN map) + 1) : n \notin DOMAIN map
    IN  [i \in DOMAIN map \cup {slot} |-> IF i = slot THEN json ELSE map[i]]

\* HashMap::insert under the registry's lock, lsp.rs 77-80
insert(map, id, json) ==
    [i \in DOMAIN map \cup {id} |-> IF i = id THEN json ELSE map[i]]

\* (mutant of ReaderClassify)  the two rules tried in the other order
ReaderClassify_request_first ==
    /\ reader_pc = "classify"
    /\ LET json == reader_json
           has_id == Get(json, "id") # None
           has_method == Get(json, "method") # None
           has_result_or_error ==
               Get(json, "result") # None \/ Get(json, "error") # None
       IN  IF has_id /\ has_method
           THEN /\ server_requests' = Append(server_requests, json)
                /\ enqueued' = Append(enqueued, json)
                /\ UNCHANGED responses
           ELSE IF has_id /\ has_result_or_error
           THEN /\ responses' =
                     IF AsI64(Index(json, "id")) # None
                     THEN insert(responses, AsI64(Index(json, "id")).v, json)
                     ELSE responses
                /\ UNCHANGED <<server_requests, enqueued>>
           ELSE UNCHANGED <<responses, server_requests, enqueued>>
    /\ reader_pc' = "read"
    /\ reader_json' = None
    /\ UNCHANGED <<reader_log, last_get, delivered, wireVars, docVars, serverVars,
                   mainVars>>
    /\ UNCHANGED <<diagVars, complVars, fnVars, lockVars, editorVars>>

\* lsp.rs 69-87: classify the parsed message; each lock is taken for the one
\* insert or push
ReaderClassify ==
    /\ reader_pc = "classify"
    /\ LET json == reader_json
           has_id == Get(json, "id") # None
           has_method == Get(json, "method") # None
           has_result_or_error ==
               Get(json, "result") # None \/ Get(json, "error") # None
       IN  IF has_id /\ has_result_or_error
           THEN /\ responses' =
                     IF AsI64(Index(json, "id")) # None
                     THEN insert(responses, AsI64(Index(json, "id")).v, json)
                     ELSE responses
                /\ UNCHANGED <<server_requests, enqueued>>
           ELSE IF has_id /\ has_method
           THEN /\ server_requests' = Append(server_requests, json)
                /\ enqueued' = Append(enqueued, json)
                /\ UNCHANGED responses
           ELSE UNCHANGED <<responses, server_requests, enqueued>>
    /\ reader_pc' = "read"
    /\ reader_json' = None
    /\ UNCHANGED <<reader_log, last_get, delivered, wireVars, docVars, serverVars,
                   mainVars>>
    /\ UNCHANGED <<diagVars, complVars, fnVars, lockVars, editorVars>>

(***************************************************************************)
(* LspClient's sending side, lsp.rs 236-276.  The operators take and       *)
(* return the part of the state they touch:                                *)
(*   [writer, stdin, sent, next_id]                                        *)
(***************************************************************************)
Out == [writer |-> writer, stdin |-> server_stdin, sent |-> sent,
        next_id |-> next_id]

\* (mutant of send_raw)  write! without the flush: the frame stays buffered
send_raw_unflushed(o, msg) ==
    [o EXCEPT !.writer = @ \o Frame(to_string(msg)), !.sent = Append(@, msg)]

\* lsp.rs 267-276: write! into the BufWriter, then flush it.  Both results are
\* discarded; once the server has exited the flush fails and the bytes stay
\* in the buffer.
send_raw(o, msg) ==
    LET body == to_string(msg)
        buffered == o.writer \o Frame(body)
    IN  [o EXCEPT !.writer = IF server_exited THEN buffered ELSE <<>>,
                  !.stdin = IF server_exited THEN @ ELSE @ \o buffered,
                  !.sent = Append(@, msg)]

\* send_raw once or twice on a fresh writer, and the reader's loop run twice
\* over what was written
WriteThenRead ==
    /\ fn_in # None
    /\ fn_out = None
    /\ LET fresh == [Out EXCEPT !.writer = <<>>, !.stdin = <<>>, !.sent = <<>>]
           first == send_raw(fresh, fn_in.msg)
           both == IF fn_in.next = None THEN first
                   ELSE send_raw(first, fn_in.next)
           r1 == receive_one(both.stdin, FALSE)
       IN  fn_out' = Some([written |-> both.stdin, first |-> r1,
                           second |-> IF r1.st \in {"msg", "skip"}
                                      THEN receive_one(r1.rest, FALSE)
                                      ELSE None])
    /\ UNCHANGED fn_in
    /\ UNCHANGED <<lspVars, diagVars, complVars, lockVars, editorVars>>

\* (mutant of send_request)  the counter is read but not advanced
send_request_same_id(o, method, params) ==
    [o EXCEPT !.writer = IF server_exited THEN @ \o Frame(to_string(
                  JObj([jsonrpc |-> JStr(S_2_0), id |-> JInt(o.next_id),
                        method |-> JStr(method), params |-> params]))) ELSE <<>>,
              !.stdin = IF server_exited THEN @ ELSE @ \o o.writer \o Frame(to_string(
                  JObj([jsonrpc |-> JStr(S_2_0), id |-> JInt(o.next_id),
                        method |-> JStr(method), params |-> params]))),
              !.sent = Append(@, JObj([jsonrpc |-> JStr(S_2_0), id |-> JInt(o.next_id),
                        method |-> JStr(method), params |-> params]))]

\* (mutant of send_request)  a client that checks the write: once the server
\* has exited the call gives up and the counter stays
send_request_giving_up(o, method, params) ==
    LET msg == JObj([jsonrpc |-> JStr(S_2_0), id |-> JInt(o.next_id),
                     method |-> JStr(method), params |-> params])
    IN  IF server_exited THEN [o EXCEPT !.sent = Append(@, msg)]
        ELSE send_raw([o EXCEPT !.next_id = @ + 1], msg)

\* lsp.rs 236-247; the id returned is o.next_id
send_request(o, method, params) ==
    send_raw([o EXCEPT !.next_id = @ + 1],
             JObj([jsonrpc |-> JStr(S_2_0), id |-> JInt(o.next_id),
                   method |-> JStr(method), params |-> params]))

\* lsp.rs 249-256
send_response(o, id, result) ==
    send_raw(o, JObj([jsonrpc |-> JStr(S_2_0), id |-> id, result |-> result]))

\* lsp.rs 258-265
send_notification(o, method, params) ==
    send_raw(o, JObj([jsonrpc |-> JStr(S_2_0), method |-> JStr(method),
                      params |-> params]))

Commit(o) ==
    /\ writer' = o.writer
    /\ server_stdin' = o.stdin
    /\ sent' = o.sent
    /\ next_id' = o.next_id

(***************************************************************************)
(* The response registry's consumer, lsp.rs 232-234.                       *)
(***************************************************************************)
\* (mutants of get_response)  HashMap::get(..).cloned(): the entry stays
get_response_peek(map, id) ==
    [ret |-> IF id \in DOMAIN map THEN map[id] ELSE None, map |-> map]

\* a registry on a channel whose sender has gone: nothing once the reader exited
get_response_disconnected(map, id) ==
    IF reader_pc = "exited" THEN [ret |-> None, map |-> map]
    ELSE [ret |-> IF id \in DOMAIN map THEN map[id] ELSE None,
          map |-> [i \in DOMAIN map \ {id} |-> map[i]]]

\* (mutant of get_response)  a registry read as a queue: the entries up to
\* id are dropped with it
get_response_dropping_older(map, id) ==
    [ret |-> IF id \in DOMAIN map THEN map[id] ELSE None,
     map |-> [i \in {j \in DOMAIN map : j > id} |-> map[i]]]

\* HashMap::remove under the lock: what is returned, and the map left
get_response(map, id) ==
    [ret |-> IF id \in DOMAIN map THEN map[id] ELSE None,
     map |-> [i \in DOMAIN map \ {id} |-> map[i]]]

\* what a get_response call leaves in the history
GetRecord(id, r) ==
    [id |-> id, ret |-> r.ret,
     held |-> IF id \in DOMAIN responses THEN responses[id] ELSE None,
     left |-> id \in DOMAIN r.map,
     reader_exited |-> reader_pc = "exited"]

\* a get_response call and its trace in the history
Poll(id, r) ==
    /\ responses' = r.map
    /\ last_get' = GetRecord(id, r)
    /\ delivered' = IF r.ret = None THEN delivered ELSE Append(delivered, r.ret)

\* the ids the client polls for
PollIds == 1..MaxRequests

GetResponse(id) ==
    /\ pc = "idle"
    /\ Poll(id, get_response(responses, id))
    /\ UNCHANGED <<wireVars, docVars, queueVars, serverVars, readerVars, mainVars>>
    /\ UNCHANGED <<diagVars, complVars, fnVars, lockVars, editorVars>>

(***************************************************************************)
(* process_server_requests, lsp.rs 142-186.                                *)
(***************************************************************************)
\* (mutant of take)  a clone of the queue: the requests stay queued
take_clone(queue) == [taken |-> queue, left |-> queue]

\* lsp.rs 143-146: std::mem::take under the queue's lock
take(queue) == [taken |-> queue, left |-> <<>>]

M_initialize == <<"i", "n", "i", "t", "i", "a", "l", "i", "z", "e">>
M_initialized == <<"i", "n", "i", "t", "i", "a", "l", "i", "z", "e", "d">>
M_didOpen == <<"t", "e", "x", "t", "D", "o", "c", "u", "m", "e", "n", "t", "/", "d", "i", "d", "O", "p", "e", "n">>
M_didChange == <<"t", "e", "x", "t", "D", "o", "c", "u", "m", "e", "n", "t", "/", "d", "i", "d", "C", "h", "a", "n", "g", "e">>
M_completion == <<"t", "e", "x", "t", "D", "o", "c", "u", "m", "e", "n", "t", "/", "c", "o", "m", "p", "l", "e", "t", "i", "o", "n">>
M_resolve == <<"c", "o", "m", "p", "l", "e", "t", "i", "o", "n", "I", "t", "e", "m", "/", "r", "e", "s", "o", "l", "v", "e">>
S_rust == <<"r", "u", "s", "t">>

\* cursor positions a completion is asked at
Positions == {[line |-> 0, character |-> 1]}

\* what the caller of process_server_requests does once it has returned:
\* request_completion sends its request, lsp.rs 219-225
AfterDrain(o, who, arg) ==
    IF who = "request_completion"
    THEN send_request(o, M_completion,
            JObj([textDocument |-> JObj([uri |-> JStr(uri)]),
                  position |-> JObj([line |-> JInt(arg.line),
                                     character |-> JInt(arg.character)])]))
    ELSE o

\* (mutant of Drain)  the caller's request goes out first, the queue is left
Drain_after_sending(who, arg) ==
    /\ pc = "idle"
    /\ Commit(AfterDrain(Out, who, arg))
    /\ drained' = [who |-> who, queued |-> server_requests, at |-> Len(sent)]
    /\ UNCHANGED <<pc, reqs, caller, wait_id, elapsed, last_wait, docVars,
                   registryVars, queueVars, serverVars, readerVars>>
    /\ UNCHANGED <<diagVars, complVars, fnVars, lockVars, editorVars>>

\* the lock is released before the first reply is written; the reader may
\* push further requests while the replies go out
Drain(who, arg) ==
    /\ pc = "idle"
    /\ LET t == take(server_requests)
       IN  /\ server_requests' = t.left
           /\ IF t.taken = <<>>
              THEN /\ Commit(AfterDrain(Out, who, arg))
                   /\ UNCHANGED <<pc, reqs, caller>>
              ELSE /\ pc' = "ack"
                   /\ reqs' = t.taken
                   /\ caller' = [who |-> who, arg |-> arg]
                   /\ UNCHANGED wireVars
           /\ drained' = [who |-> who, queued |-> t.taken, at |-> Len(sent)]
    /\ UNCHANGED <<enqueued, wait_id, elapsed, last_wait, docVars, registryVars,
                   serverVars, readerVars>>
    /\ UNCHANGED <<diagVars, complVars, fnVars, lockVars, editorVars>>

ProcessServerRequests == Drain("process_server_requests", None)

\* lsp.rs 148-151: one turn of the loop; after the last one the caller goes on
AckNext ==
    /\ pc = "ack"
    /\ LET o == send_response(Out, Index(Head(reqs), "id"), JNull)
       IN  /\ reqs' = Tail(reqs)
           /\ IF Tail(reqs) = <<>>
              THEN /\ Commit(AfterDrain(o, caller.who, caller.arg))
                   /\ pc' = "idle"
                   /\ caller' = None
              ELSE /\ Commit(o)
                   /\ UNCHANGED <<pc, caller>>
    /\ UNCHANGED <<wait_id, elapsed, last_wait, drained, docVars, registryVars,
                   queueVars, serverVars, readerVars>>
    /\ UNCHANGED <<diagVars, complVars, fnVars, lockVars, editorVars>>

(***************************************************************************)
(* The requests and notifications, lsp.rs 104-230.                         *)
(***************************************************************************)
\* lsp.rs 215-226
RequestCompletion ==
    /\ next_id <= MaxRequests
    /\ \E pos \in Positions : Drain("request_completion", pos)

\* raw completion items a resolve is asked for
RawItems == {JObj([label |-> JStr(<<"f", "o", "o">>)])}

\* lsp.rs 228-230
ResolveCompletion ==
    /\ pc = "idle"
    /\ next_id <= MaxRequests
    /\ \E item \in RawItems : Commit(send_request(Out, M_resolve, item))
    /\ UNCHANGED <<docVars, registryVars, queueVars, serverVars, readerVars,
                   mainVars>>
    /\ UNCHANGED <<diagVars, complVars, fnVars, lockVars, editorVars>>

\* lsp.rs 107-130, of which the workspace capability is kept
InitializeParams ==
    JObj([processId |-> JInt(1),
          capabilities |-> JObj([workspace |-> JObj([configuration |-> JBool(TRUE)])])])

\* lsp.rs 104-132: send the request, then enter wait_response(id, 10000)
Initialize ==
    /\ pc = "idle"
    /\ next_id <= MaxRequests
    /\ Commit(send_request(Out, M_initialize, InitializeParams))
    /\ pc' = "wait"
    /\ wait_id' = next_id
    /\ elapsed' = "within"
    /\ UNCHANGED <<reqs, caller, last_wait, drained, docVars, registryVars, queueVars,
                   serverVars, readerVars>>
    /\ UNCHANGED <<diagVars, complVars, fnVars, lockVars, editorVars>>

(***************************************************************************)
(* The Mutex guards, statement by statement: where each thread locks, what *)
(* it does under the guard, where the guard goes out of scope.             *)
(***************************************************************************)
\* the owner of the LspClient, the reader thread, the lint threads
Runners == {"runner1", "runner2"}
Threads == {"main", "reader"} \cup Runners

\* the owner is between calls, the reader at its read, no lint run started
InitLocks ==
    /\ holder = [l \in {"responses", "server_requests", "state"} |-> "free"]
    /\ at = [t \in Threads |-> IF t = "main" THEN "idle"
                                ELSE IF t = "reader" THEN "read_line"
                                ELSE "off"]

\* Mutex::lock: thread t, at statement from, gets the guard of l
Acquire(t, l, from, to) ==
    /\ at[t] = from
    /\ holder[l] = "free"
    /\ holder' = [holder EXCEPT ![l] = t]
    /\ at' = [at EXCEPT ![t] = to]

\* the one statement under the guard, and the guard's scope ending
Release(t, l, from, to) ==
    /\ at[t] = from
    /\ holder[l] = t
    /\ holder' = [holder EXCEPT ![l] = "free"]
    /\ at' = [at EXCEPT ![t] = to]

\* a statement that touches no Mutex
Advance(t, from, to) ==
    /\ at[t] = from
    /\ at' = [at EXCEPT ![t] = to]
    /\ UNCHANGED holder

\* (mutant of TakeScope)  no inner block: the guard lives through the loop
TakeScope_whole_body == Advance("main", "take", "send_response")

\* lsp.rs 143-146: mem::take, then the block ends and with it the guard
TakeScope == Release("main", "server_requests", "take", "send_response")

\* the owner's calls: get_response, lsp.rs 232-234; process_server_requests,
\* lsp.rs 142-152 (send_response writes to the server's stdin);
\* spawn_cargo_check, diagnostic.rs 179-188 (the thread is spawned after the
\* if, the guard gone)
MainStep ==
    /\ \/ Acquire("main", "responses", "idle", "remove")
       \/ Release("main", "responses", "remove", "idle")
       \/ Acquire("main", "server_requests", "idle", "take")
       \/ TakeScope
       \/ Advance("main", "send_response", "idle")
       \/ Acquire("main", "state", "idle", "is_running")
       \/ Release("main", "state", "is_running", "idle")
       \/ \E r \in Runners :
             /\ at[r] = "off"
             /\ at["main"] = "is_running"
             /\ holder["state"] = "main"
             /\ holder' = [holder EXCEPT !["state"] = "free"]
             /\ at' = [at EXCEPT !["main"] = "idle", ![r] = "lock"]
    /\ UNCHANGED <<lspVars, diagVars, complVars, fnVars, editorVars>>

\* the reader thread, lsp.rs 42-87: read and parse one message, then insert
\* it, push it or drop it
ReaderStep ==
    /\ \/ \E kind \in {"response", "request", "notification"} :
             Advance("reader", "read_line", kind)
       \/ Acquire("reader", "responses", "response", "insert")
       \/ Release("reader", "responses", "insert", "read_line")
       \/ Acquire("reader", "server_requests", "request", "push")
       \/ Release("reader", "server_requests", "push", "read_line")
       \/ Advance("reader", "notification", "read_line")
    /\ UNCHANGED <<lspVars, diagVars, complVars, fnVars, editorVars>>

\* a lint thread, diagnostic.rs 147-177: set the flag under the guard, run
\* cargo, store the result under the guard
RunnerStep(r) ==
    /\ \/ Acquire(r, "state", "lock", "set_running")
       \/ Release(r, "state", "set_running", "cargo")
       \/ Advance(r, "cargo", "finished")
       \/ Acquire(r, "state", "finished", "publish")
       \/ Release(r, "state", "publish", "off")
    /\ UNCHANGED <<lspVars, diagVars, complVars, fnVars, editorVars>>

\* the statements that write to the server, read from it, or run cargo
PipeStatements == {"send_response", "read_line", "cargo"}

\* the session goes out of scope, lsp.rs 12-20: its fields are dropped in
\* turn.  Dropping the Child neither kills nor waits for the process; the
\* BufWriter flushes what it still holds and closes the server's stdin; the
\* two Arcs are released.  The reader thread and the server go on.
Drop ==
    /\ pc = "idle"
    /\ pc' = "dropped"
    /\ writer' = <<>>
    /\ server_stdin' = IF server_exited THEN server_stdin
                       ELSE server_stdin \o writer
    /\ UNCHANGED <<sent, next_id, reqs, caller, wait_id, elapsed, last_wait,
                   drained, docVars, registryVars, queueVars, serverVars,
                   readerVars>>
    /\ UNCHANGED <<diagVars, complVars, fnVars, lockVars, editorVars>>

\* (mutant of WaitPoll)  no deadline: only a response ends the wait
WaitPoll_without_deadline ==
    /\ pc = "wait"
    /\ LET r == get_response(responses, wait_id)
       IN  /\ Poll(wait_id, r)
           /\ IF r.ret # None
              THEN /\ last_wait' = [id |-> wait_id, ret |-> r.ret]
                   /\ Commit(send_notification(Out, M_initialized, JObj([x \in {} |-> JNull])))
                   /\ pc' = "idle"
                   /\ UNCHANGED elapsed
              ELSE /\ elapsed' \in {"within", "over"}
                   /\ UNCHANGED <<pc, last_wait, wireVars>>
    /\ UNCHANGED <<reqs, caller, wait_id, drained, docVars, queueVars, serverVars,
                   readerVars>>
    /\ UNCHANGED <<diagVars, complVars, fnVars, lockVars, editorVars>>

\* (mutant of WaitPoll)  an initialize that gives up when the wait times
\* out: initialized is sent only after a reply
WaitPoll_giving_up_on_timeout ==
    /\ pc = "wait"
    /\ LET r == get_response(responses, wait_id)
       IN  /\ Poll(wait_id, r)
           /\ IF r.ret # None
              THEN /\ last_wait' = [id |-> wait_id, ret |-> r.ret]
                   /\ Commit(send_notification(Out, M_initialized, JObj([x \in {} |-> JNull])))
                   /\ pc' = "idle"
                   /\ UNCHANGED elapsed
              ELSE IF elapsed = "over"
              THEN /\ last_wait' = [id |-> wait_id, ret |-> r.ret]
                   /\ pc' = "idle"
                   /\ UNCHANGED <<elapsed, wireVars>>
              ELSE /\ elapsed' \in {"within", "over"}
                   /\ UNCHANGED <<pc, last_wait, wireVars>>
    /\ UNCHANGED <<reqs, caller, wait_id, drained, docVars, queueVars, serverVars,
                   readerVars>>
    /\ UNCHANGED <<diagVars, complVars, fnVars, lockVars, editorVars>>

\* (mutant of WaitPoll)  no wait: initialized follows at the first turn
WaitPoll_without_waiting ==
    /\ pc = "wait"
    /\ LET r == get_response(responses, wait_id)
       IN  /\ Poll(wait_id, r)
           /\ last_wait' = [id |-> wait_id, ret |-> r.ret]
    /\ Commit(send_notification(Out, M_initialized, JObj([x \in {} |-> JNull])))
    /\ pc' = "idle"
    /\ UNCHANGED <<elapsed, reqs, caller, wait_id, drained, docVars, queueVars,
                   serverVars, readerVars>>
    /\ UNCHANGED <<diagVars, complVars, fnVars, lockVars, editorVars>>

\* one turn of wait_response's loop, lsp.rs 280-288: poll; return the
\* response, or None once the timeout is over; else sleep, after which the
\* clock may or may not have passed the timeout.  On return initialize sends
\* the initialized notification, lsp.rs 133.
WaitPoll ==
    /\ pc = "wait"
    /\ LET r == get_response(responses, wait_id)
       IN  /\ Poll(wait_id, r)
           /\ IF r.ret # None \/ elapsed = "over"
              THEN /\ last_wait' = [id |-> wait_id, ret |-> r.ret]
                   /\ Commit(send_notification(Out, M_initialized, JObj([x \in {} |-> JNull])))
                   /\ pc' = "idle"
                   /\ UNCHANGED elapsed
              ELSE /\ elapsed' \in {"within", "over"}
                   /\ UNCHANGED <<pc, last_wait, wireVars>>
    /\ UNCHANGED <<reqs, caller, wait_id, drained, docVars, queueVars, serverVars,
                   readerVars>>
    /\ UNCHANGED <<diagVars, complVars, fnVars, lockVars, editorVars>>

\* the didOpen and didChange notifications sent so far
IsDocNotification(m) ==
    Get(m, "method") \in {JStr(M_didOpen), JStr(M_didChange)}
Notifications == SelectSeq(sent, IsDocNotification)

\* lsp.rs 188-202
DidOpen(u, text) ==
    /\ pc = "idle"
    /\ Len(Notifications) < MaxNotifications
    /\ uri' = u
    /\ version' = 1
    /\ Commit(send_notification(Out, M_didOpen,
          JObj([textDocument |->
                  JObj([uri |-> JStr(u), languageId |-> JStr(S_rust),
                        version |-> JInt(1), text |-> JStr(text)])])))
    /\ UNCHANGED <<registryVars, queueVars, serverVars, readerVars, mainVars>>
    /\ UNCHANGED <<diagVars, complVars, fnVars, lockVars, editorVars>>

\* lsp.rs 204-213
DidChange(text) ==
    /\ pc = "idle"
    /\ Len(Notifications) < MaxNotifications
    /\ version' = version + 1
    /\ Commit(send_notification(Out, M_didChange,
          JObj([textDocument |-> JObj([uri |-> JStr(uri), version |-> JInt(version + 1)]),
                contentChanges |-> JArr(<<JObj([text |-> JStr(text)])>>)])))
    /\ UNCHANGED <<uri, registryVars, queueVars, serverVars, readerVars, mainVars>>
    /\ UNCHANGED <<diagVars, complVars, fnVars, lockVars, editorVars>>

(***************************************************************************)
(* The lint runner, diagnostic.rs 147-188.                                 *)
(***************************************************************************)
\* DiagnosticState::new, diagnostic.rs 30-35
InitDiag ==
    /\ diagnostics = <<>>
    /\ is_running = FALSE
    /\ runners = <<>>
    /\ spawn_log = <<>>
    /\ run_log = <<>>

\* the text of a sequence of lines, each ended by a line feed
Stdout(lines) == Flatten([i \in DOMAIN lines |-> lines[i] \o <<LF>>])

\* what Command::output may return, diagnostic.rs 160: the bytes cargo
\* printed, or the error that kept it from running
Ran(stdout) == [launched |-> TRUE, stdout |-> stdout, err |-> <<>>]
LaunchFailed(e) == [launched |-> FALSE, stdout |-> <<>>, err |-> e]
CargoOutcomes ==
    {LaunchFailed(<<"E", "N", "O", "E", "N", "T">>), Ran(<<>>),
     Ran(Stdout(<<GarbageLine>>)),
     Ran(Stdout(<<to_string(CargoRecords[1])>>)),
     Ran(Stdout(<<to_string(CargoRecords[3])>>))}

\* (mutant of CargoFailed)  the synthetic diagnostic placed at the file's start
CargoFailed_located(e) ==
    [level |-> "Error", message |-> S_CARGO_CHECK_FAILED \o e,
     line |-> Some(0), column |-> Some(0)]

\* diagnostic.rs 163-168: the diagnostic of a launch failure
CargoFailed(e) ==
    [level |-> "Error", message |-> S_CARGO_CHECK_FAILED \o e,
     line |-> None, column |-> None]

\* diagnostic.rs 152-169: the diagnostics of a run on file
run_result(outcome, file) ==
    IF outcome.launched
    THEN parse_diagnostics(outcome.stdout, file, find_project_dir(file))
    ELSE <<CargoFailed(outcome.err)>>

\* (mutant of spawn_cargo_check)  a thread is started whatever the flag says
spawn_cargo_check_unguarded(running, threads) == Append(threads, "start")

\* diagnostic.rs 179-188: return if the flag is set, else start a thread;
\* the threads after the call
spawn_cargo_check(running, threads) ==
    IF running THEN threads ELSE Append(threads, "start")

SpawnCargoCheck ==
    /\ Len(spawn_log) < MaxSpawns
    /\ runners' = spawn_cargo_check(is_running, runners)
    /\ spawn_log' = Append(spawn_log, [is_running |-> is_running,
                                       started |-> Len(runners') - Len(runners)])
    /\ UNCHANGED <<diagnostics, is_running, run_log>>
    /\ UNCHANGED <<lspVars, complVars, fnVars, lockVars, editorVars>>

\* run_cargo_check, diagnostic.rs 148-150: the thread sets the flag
RunnerStart(t) ==
    /\ runners[t] = "start"
    /\ is_running' = TRUE
    /\ runners' = [runners EXCEPT ![t] = "check"]
    /\ UNCHANGED <<diagnostics, spawn_log, run_log>>
    /\ UNCHANGED <<lspVars, complVars, fnVars, lockVars, editorVars>>

\* (mutant of Publish)  the list is stored, the flag left for later
Publish_list_only(diags, list, flag) == [diagnostics |-> diags, is_running |-> flag]

\* diagnostic.rs 171-176: the list replaced and the flag cleared, under one
\* lock
Publish(diags, list, flag) == [diagnostics |-> diags, is_running |-> FALSE]

\* run_cargo_check, diagnostic.rs 152-176: cargo has run or could not be
\* run; the result is stored and the flag cleared under one lock
RunnerFinish(t, outcome) ==
    /\ runners[t] = "check"
    /\ LET diags == run_result(outcome, TargetFile)
           after == Publish(diags, diagnostics, is_running)
       IN  /\ diagnostics' = after.diagnostics
           /\ is_running' = after.is_running
           /\ run_log' = Append(run_log, [t |-> t, outcome |-> outcome,
                                          diags |-> diags])
    /\ runners' = [runners EXCEPT ![t] = "done"]
    /\ UNCHANGED spawn_log
    /\ UNCHANGED <<lspVars, complVars, fnVars, lockVars, editorVars>>

\* what the lint command may print: any lines up to MaxLines, each a record
\* or a line that is no JSON; the records are kept beside their text
CargoPrints ==
    LET choice == CargoRecords \o <<None>>
        text(c) == IF c = None THEN GarbageLine ELSE to_string(c)
    IN  UNION {{[records |-> [k \in 1..n |-> choice[pick[k]]],
                 output |-> Stdout([k \in 1..n |-> text(choice[pick[k]])])] :
                   pick \in [1..n -> DOMAIN choice]} : n \in 0..MaxLines}

\* parse_diagnostics applied to cargo's output for the edited file, as
\* run_cargo_check does at diagnostic.rs 152-163
ParseDiagnostics ==
    /\ fn_in # None
    /\ fn_out = None
    /\ fn_out' = Some(parse_diagnostics(fn_in.output, TargetFile,
                                        find_project_dir(TargetFile)))
    /\ UNCHANGED fn_in
    /\ UNCHANGED <<lspVars, diagVars, complVars, lockVars, editorVars>>

(***************************************************************************)
(* CompletionState, completion.rs 12-93, and the resolve of the selected   *)
(* item's documentation.                                                   *)
(***************************************************************************)
\* CompletionState::new, completion.rs 23-33
new ==
    [items |-> <<>>, selected |-> 0, prefix |-> <<>>, request_id |-> None,
     doc |-> None, scroll |-> 0, resolve_id |-> None]

\* the item parse_completions makes of the raw item {"label": label},
\* completion.rs 139-165
Item(label) ==
    [label |-> label, detail |-> None, kind |-> "?", insert_text |-> label,
     raw |-> JObj([label |-> JStr(label)])]

\* the label of the i-th item a server lists
Label(i) == <<"f", "n">> \o Digits(i)

\* a list of n items being shown, none resolved yet
Listing(n) == [new EXCEPT !.items = [i \in 1..n |-> Item(Label(i))]]

\* (mutant of move_down)  the selection moves, the documentation stays
move_down_keeping_doc(c) ==
    IF c.items # <<>>
    THEN [c EXCEPT !.selected = (c.selected + 1) % Len(c.items), !.scroll = 0]
    ELSE c

\* completion.rs 48-54
move_down(c) ==
    IF c.items # <<>>
    THEN [c EXCEPT !.selected = (c.selected + 1) % Len(c.items),
                   !.doc = None,
                   !.scroll = 0]
    ELSE c

\* (mutant of move_up)  the selection stops at the first item
move_up_saturating(c) ==
    IF c.items # <<>>
    THEN [c EXCEPT !.selected = IF c.selected = 0 THEN 0 ELSE c.selected - 1,
                   !.doc = None,
                   !.scroll = 0]
    ELSE c

\* completion.rs 56-66
move_up(c) ==
    IF c.items # <<>>
    THEN [c EXCEPT !.selected = IF c.selected = 0 THEN Len(c.items) - 1
                                ELSE c.selected - 1,
                   !.doc = None,
                   !.scroll = 0]
    ELSE c

\* the letters that have a lower-case form, each with that form
LowerCase ==
    << <<"A", "a">>, <<"B", "b">>, <<"C", "c">>, <<"D", "d">>,
       <<"E", "e">>, <<"F", "f">>, <<"G", "g">>, <<"H", "h">>,
       <<"I", "i">>, <<"J", "j">>, <<"K", "k">>, <<"L", "l">>,
       <<"M", "m">>, <<"N", "n">>, <<"O", "o">>, <<"P", "p">>,
       <<"Q", "q">>, <<"R", "r">>, <<"S", "s">>, <<"T", "t">>,
       <<"U", "u">>, <<"V", "v">>, <<"W", "w">>, <<"X", "x">>,
       <<"Y", "y">>, <<"Z", "z">>, <<"U+00C9", "U+00E9">> >>

\* str::to_lowercase, completion.rs 82-85
to_lowercase(str) ==
    [i \in DOMAIN str |->
        IF \E k \in DOMAIN LowerCase : LowerCase[k][1] = str[i]
        THEN (CHOOSE pair \in Range(LowerCase) : pair[1] = str[i])[2]
        ELSE str[i]]

\* str::contains: pat occurs in str as a contiguous run
contains(str, pat) ==
    \E i \in 0..(Len(str) - Len(pat)) : SubSeq(str, i + 1, i + Len(pat)) = pat

\* (mutant of clear)  the list is emptied, the session's ids are kept
clear_items_only(c) ==
    [c EXCEPT !.items = <<>>, !.selected = 0, !.prefix = <<>>]

\* completion.rs 35-42
clear(c) ==
    [c EXCEPT !.items = <<>>, !.selected = 0, !.prefix = <<>>,
              !.request_id = None, !.doc = None, !.resolve_id = None]

\* completion.rs 44-46
is_active(c) == c.items # <<>>

\* completion.rs 68-70
scroll_down(c) == [c EXCEPT !.scroll = @ + 10]

\* completion.rs 72-74: saturating_sub
scroll_up(c) == [c EXCEPT !.scroll = IF @ < 10 THEN 0 ELSE @ - 10]

\* (mutant of filter)  the items are compared as they are written
filter_case_sensitive(c, prefix) ==
    LET kept == SelectSeq(c.items, LAMBDA item :
                    contains(item.label, prefix)
                        \/ contains(item.insert_text, prefix))
        retained == [c EXCEPT !.prefix = prefix, !.items = kept]
    IN  IF kept = <<>> THEN clear(retained)
        ELSE [retained EXCEPT !.selected =
                 IF c.selected < Len(kept) - 1 THEN c.selected ELSE Len(kept) - 1]

\* (mutant of filter)  the selection is left where it was
filter_unclamped(c, prefix) ==
    LET lower == to_lowercase(prefix)
        kept == SelectSeq(c.items, LAMBDA item :
                    contains(to_lowercase(item.label), lower)
                        \/ contains(to_lowercase(item.insert_text), lower))
        retained == [c EXCEPT !.prefix = prefix, !.items = kept]
    IN  IF kept = <<>> THEN clear(retained) ELSE retained

\* completion.rs 80-93
filter(c, prefix) ==
    LET lower == to_lowercase(prefix)
        kept == SelectSeq(c.items, LAMBDA item :
                    contains(to_lowercase(item.label), lower)
                        \/ contains(to_lowercase(item.insert_text), lower))
        retained == [c EXCEPT !.prefix = prefix, !.items = kept]
    IN  IF kept = <<>> THEN clear(retained)
        ELSE [retained EXCEPT !.selected =
                 IF c.selected < Len(kept) - 1 THEN c.selected ELSE Len(kept) - 1]

\* completion.rs 175-186: result.documentation, a string or an object with a
\* string under "value"
parse_resolve_doc(response) ==
    LET r == Get(response, "result")
        d == IF r = None THEN None ELSE Get(r, "documentation")
        v == IF d = None THEN None ELSE Get(d, "value")
    IN  IF d = None THEN None
        ELSE IF d.k = "str" THEN Some(d.v)
        ELSE IF v # None /\ v.k = "str" THEN Some(v.v)
        ELSE None

MoveDown ==
    /\ completion' = move_down(completion)
    /\ UNCHANGED <<doc_for, resolve_log>>
    /\ UNCHANGED <<lspVars, diagVars, fnVars, lockVars, editorVars>>

MoveUp ==
    /\ completion' = move_up(completion)
    /\ UNCHANGED <<doc_for, resolve_log>>
    /\ UNCHANGED <<lspVars, diagVars, fnVars, lockVars, editorVars>>

\* the resolve of the selected item: resolve_completion (lsp.rs 228-230) with
\* the item's raw payload; the id and the selection index are kept in
\* resolve_id
IssueResolve ==
    /\ pc = "idle"
    /\ next_id <= MaxRequests
    /\ completion.items # <<>>
    /\ Commit(send_request(Out, M_resolve, completion.items[completion.selected + 1].raw))
    /\ completion' = [completion EXCEPT !.resolve_id = Some(<<next_id, completion.selected>>)]
    /\ UNCHANGED <<doc_for, resolve_log, docVars, registryVars, queueVars,
                   serverVars, readerVars, mainVars>>
    /\ UNCHANGED <<diagVars, fnVars, lockVars, editorVars>>

\* a resolve reply that has arrived: applied if its tag is the current
\* selection, dropped otherwise; the pending resolve is over either way
apply_resolve(c, reply) ==
    IF c.resolve_id.v[2] = c.selected
    THEN [c EXCEPT !.doc = parse_resolve_doc(reply), !.resolve_id = None]
    ELSE [c EXCEPT !.resolve_id = None]

\* the poll for the pending resolve's reply: get_response (lsp.rs 232-234)
\* with the id kept in resolve_id
PollResolve ==
    /\ pc = "idle"
    /\ completion.resolve_id # None
    /\ LET r == get_response(responses, completion.resolve_id.v[1])
       IN  /\ Poll(completion.resolve_id.v[1], r)
           /\ completion' = IF r.ret = None THEN completion
                            ELSE apply_resolve(completion, r.ret)
           /\ doc_for' = IF completion'.doc # completion.doc
                         THEN completion.resolve_id.v[2] ELSE doc_for
           /\ resolve_log' =
                 IF r.ret = None THEN resolve_log
                 ELSE Append(resolve_log,
                             [tag |-> completion.resolve_id.v[2],
                              selected |-> completion.selected,
                              documentation |-> parse_resolve_doc(r.ret),
                              doc |-> completion'.doc])
    /\ UNCHANGED <<wireVars, docVars, queueVars, serverVars, readerVars, mainVars>>
    /\ UNCHANGED <<diagVars, fnVars, lockVars, editorVars>>

\* completion.rs 95-121: the tag of a CompletionItemKind code
KindTags ==
    <<"txt", "meth", "fn", "ctor", "field", "var", "class", "iface", "mod",
      "prop", "unit", "val", "enum", "kw", "snip", "color", "file", "?", "?",
      "?", "const", "struct", "event", "op", "type">>
parse_completion_kind(kind_num) ==
    IF kind_num \in DOMAIN KindTags THEN KindTags[kind_num] ELSE "?"

RECURSIVE replace(_, _, _)
\* str::replace: every non-overlapping match of from, found left to right,
\* becomes to
replace(str, from, to) ==
    IF Len(str) < Len(from) THEN str
    ELSE IF SubSeq(str, 1, Len(from)) = from
         THEN to \o replace(SubSeq(str, Len(from) + 1, Len(str)), from, to)
         ELSE <<Head(str)>> \o replace(Tail(str), from, to)

\* completion.rs 156-159: the three replacements, one after the other
strip_markers(text) ==
    replace(replace(replace(text, <<"$", "0">>, <<>>),
                    <<"$", "{", "0", ":", "(", ")", "}">>, <<"(", ")">>),
            <<"$", "1">>, <<>>)

\* completion.rs 139-166: the closure of filter_map, None for an item
\* without a string label
completion_item(item) ==
    LET label == AsStr(Get(item, "label"))
        insertText == AsStr(Get(item, "insertText"))
        newText == AsStr(Get(Get(item, "textEdit"), "newText"))
        text == IF insertText # None THEN insertText.v
                ELSE IF newText # None THEN newText.v
                ELSE label.v
    IN  IF label = None THEN None
        ELSE Some([label |-> label.v,
                   detail |-> AsStr(Get(item, "detail")),
                   kind |-> parse_completion_kind(
                                UnwrapOr(AsU64(Get(item, "kind")), 0)),
                   insert_text |-> strip_markers(text),
                   raw |-> item])

\* (mutant of parse_completions)  only the bare array is read
parse_completions_array_only(response) ==
    LET raw_items == AsArray(Get(response, "result"))
    IN  IF raw_items = None THEN <<>>
        ELSE LET made == [i \in DOMAIN raw_items.v |->
                             completion_item(raw_items.v[i])]
                 kept == SelectSeq(made, LAMBDA m : m # None)
             IN  [i \in DOMAIN kept |-> kept[i].v]

\* completion.rs 123-173
parse_completions(response) ==
    LET result == Get(response, "result")
        direct == AsArray(result)
        listed == AsArray(Get(result, "items"))
        raw_items == IF direct # None THEN direct ELSE listed
    IN  IF raw_items = None THEN <<>>
        ELSE LET made == [i \in DOMAIN raw_items.v |->
                             completion_item(raw_items.v[i])]
                 kept == SelectSeq(made, LAMBDA m : m # None)
             IN  [i \in DOMAIN kept |-> kept[i].v]

\* the texts of up to n characters a server may send for insertion
TextAlphabet == {"$", "0", "1", "x"}
InsertTexts(n) == UNION {[1..len -> TextAlphabet] : len \in 0..n}

\* a raw item carrying a text as insertText, as textEdit.newText or as
\* its label only
RawItem(text, carrier) ==
    CASE carrier = "insertText" ->
             JObj([label |-> JStr(<<"x">>), kind |-> JInt(3),
                   insertText |-> JStr(text)])
      [] carrier = "textEdit" ->
             JObj([label |-> JStr(<<"x">>), kind |-> JInt(18),
                   textEdit |-> JObj([newText |-> JStr(text)])])
      [] carrier = "label" -> JObj([label |-> JStr(text)])

\* completion responses: the result an array or a list object of one raw
\* item, followed or not by an item without a label; a response with an
\* error instead
CompletionResponses ==
    {[response |-> JObj([id |-> JInt(1), error |-> JNull])]}
    \cup {[response |-> JObj([id |-> JInt(1), result |-> result])] :
             result \in {JNull, JInt(1), JObj([items |-> JNull]),
                         JObj([isIncomplete |-> JBool(FALSE)]),
                         JArr(<<RawItem(<<"a">>, "label"),
                                JObj([label |-> JInt(1)]),
                                RawItem(<<"b">>, "insertText"),
                                RawItem(<<"a">>, "label")>>),
                         JObj([items |-> JArr(<<RawItem(<<"b">>, "textEdit"),
                                                RawItem(<<"a">>, "label")>>)])}}
    \cup {[response |-> JObj([id |-> JInt(1), result |->
                IF listed THEN JObj([items |-> JArr(raw)]) ELSE JArr(raw)])] :
             listed \in BOOLEAN,
             raw \in UNION {{<<RawItem(text, carrier)>>,
                             <<JObj([kind |-> JInt(3)]),
                               RawItem(text, carrier)>>} :
                            text \in InsertTexts(MaxText),
                            carrier \in {"insertText", "textEdit", "label"}}}

\* run_cargo_check's choice of directory for a file, the editor running
\* in cwd
LintDir ==
    /\ fn_in # None
    /\ fn_out = None
    /\ fn_out' = Some(command_dir(fn_in.file, fn_in.cwd))
    /\ UNCHANGED fn_in
    /\ UNCHANGED <<lspVars, diagVars, complVars, lockVars, editorVars>>

\* parse_completions applied to a response
ParseCompletions ==
    /\ fn_in # None
    /\ fn_out = None
    /\ fn_out' = Some(parse_completions(fn_in.response))
    /\ UNCHANGED fn_in
    /\ UNCHANGED <<lspVars, diagVars, complVars, lockVars, editorVars>>

\* items a list may hold (the last with an insert text that is not its
\* label), and what the user may have typed
FilterItems ==
    { Item(<<"f", "o", "o">>), Item(<<"b", "a", "r">>),
      Item(<<"f", "o", "o", "b", "a", "r">>), Item(<<"F", "o", "o">>),
      [Item(<<"n", "e", "w">>) EXCEPT
           !.insert_text = <<"F", "O", "O", ":", ":", "n", "e", "w">>] }
Prefixes ==
    { <<"f", "o", "o">>, <<"F", "O", "O">>, <<"F", "o", "o">>, <<"a", "r">>,
      <<"z", "z">>, <<>> }

\* the lists of up to MaxItems items, one of them selected; with nothing in
\* flight, or with a request in flight and the selected item's
\* documentation resolved
Sessions ==
    UNION {{[new EXCEPT !.items = items, !.selected = selected,
                        !.request_id = held.request_id, !.doc = held.doc,
                        !.resolve_id = IF held.doc = None THEN None
                                       ELSE Some(<<2, selected>>)] :
                items \in [1..n -> FilterItems],
                selected \in 0..(IF n = 0 THEN 0 ELSE n - 1),
                held \in {[request_id |-> None, doc |-> None],
                          [request_id |-> Some(3), doc |-> Some(<<"d">>)]}} :
           n \in 0..MaxItems}

\* filter(prefix) called on the completion state
Filter(prefix) ==
    /\ fn_in = None
    /\ completion' = filter(completion, prefix)
    /\ fn_in' = [before |-> completion, prefix |-> prefix]
    /\ fn_out' = Some(completion')
    /\ UNCHANGED <<doc_for, resolve_log>>
    /\ UNCHANGED <<lspVars, diagVars, lockVars, editorVars>>

\* completion.rs 76-78: Vec::get
selected_item(c) ==
    IF c.selected < Len(c.items) THEN Some(c.items[c.selected + 1]) ELSE None

\* one call on the completion state, kept with the state it was made on
Call(op, after) ==
    /\ completion' = after
    /\ fn_in' = [op |-> op, before |-> completion]
    /\ fn_out' = Some(after)
    /\ UNCHANGED <<doc_for, resolve_log>>
    /\ UNCHANGED <<lspVars, diagVars, lockVars, editorVars>>

CallMoveDown == Call("move_down", move_down(completion))
CallMoveUp == Call("move_up", move_up(completion))
CallFilter(prefix) == Call("filter", filter(completion, prefix))
CallClear == Call("clear", clear(completion))

\* scroll_down() and scroll_up() called on the completion state
ScrollDown ==
    /\ fn_in = None
    /\ completion.scroll + 10 <= MaxScroll
    /\ completion' = scroll_down(completion)
    /\ UNCHANGED <<doc_for, resolve_log>>
    /\ UNCHANGED <<lspVars, diagVars, fnVars, lockVars, editorVars>>

ScrollUp ==
    /\ fn_in = None
    /\ completion' = scroll_up(completion)
    /\ UNCHANGED <<doc_for, resolve_log>>
    /\ UNCHANGED <<lspVars, diagVars, fnVars, lockVars, editorVars>>

\* clear() called on the completion state
Clear ==
    /\ fn_in = None
    /\ completion' = clear(completion)
    /\ fn_in' = [cleared |-> completion]
    /\ fn_out' = Some(completion')
    /\ UNCHANGED <<doc_for, resolve_log>>
    /\ UNCHANGED <<lspVars, diagVars, lockVars, editorVars>>

(***************************************************************************)
(* The editor: its modes, its buffers and the keys it handles.             *)
(* mode.rs 12-35 and 46-282, keyboard.rs 31-243, editor.rs 31-132.         *)
(***************************************************************************)
\* EditorMode, mode.rs 12-21
Nav == [k |-> "Nav"]
Insert == [k |-> "Insert"]
TreeNav == [k |-> "TreeNav"]
Command(command_str, former_mode) ==
    [k |-> "Command", command_str |-> command_str, former_mode |-> former_mode]

\* EditorMode::command, mode.rs 30-35
command(former) == Command(<<>>, former)

\* PartialEq for EditorMode, mode.rs 23-27: the discriminants are compared
SameMode(a, b) == a.k = b.k

\* the levels of Command above a mode that is not Command
RECURSIVE Depth(_)
Depth(m) == IF m.k = "Command" THEN 1 + Depth(m.former_mode) ELSE 0

\* a KeyEvent: its code and its modifiers
Key(code) == [code |-> code, modifiers |-> "NONE"]
Char(c) == [code |-> "Char", c |-> c, modifiers |-> "NONE"]
Ctrl(c) == [code |-> "Char", c |-> c, modifiers |-> "CONTROL"]
IsChar(key, c) == key.code = "Char" /\ key.c = c
IsCtrl(key, c) == IsChar(key, c) /\ key.modifiers = "CONTROL"

\* the longest command line typed
MaxCommand == 2

CommandChars == {":", "i", "q", "w", "x", "b", "d", "n", "1"}
Keys ==
    {Char(c) : c \in CommandChars}
    \cup {Ctrl(c) : c \in {"x", "n", "p", "w", "q"}}
    \cup {Key(code) : code \in {"Esc", "Enter", "Backspace", "Up"}}

\* the files the tree lists
TreeFiles == {<<"/", "p", "/", "a", ".", "r", "s">>, <<"/", "p", "/", "b", ".", "r", "s">>}

\* Editor::new, editor.rs 43-76: a directory opens no buffer and starts in
\* the tree, a file opens one buffer and starts in Nav
new_editor(path, is_dir) ==
    LET canon_path == UnwrapOr(canonicalize(path), path)
        bufs == IF is_dir THEN <<>> ELSE <<canon_path>>
    IN  [buffers |-> bufs,
         active_buffer |-> IF bufs = <<>> THEN None ELSE Some(0),
         mode |-> IF is_dir THEN TreeNav ELSE Nav,
         process |-> "running"]

\* the Editor as the handlers see it
Editor ==
    [buffers |-> buffers, active_buffer |-> active_buffer, mode |-> mode,
     process |-> process]

\* Editor::buf_mut, editor.rs 83-86: Vec::get_mut, None out of range
buf_mut(ed) ==
    IF ed.active_buffer # None /\ ed.active_buffer.v < Len(ed.buffers)
    THEN Some(ed.buffers[ed.active_buffer.v + 1]) ELSE None

\* Editor::open_file, editor.rs 88-104
open_file(ed, path) ==
    LET canon == UnwrapOr(canonicalize(path), path)
        found == {i \in DOMAIN ed.buffers : ed.buffers[i] = canon}
    IN  IF found # {}
        THEN [ed EXCEPT !.active_buffer =
                            Some((CHOOSE i \in found : \A j \in found : i <= j) - 1)]
        ELSE [ed EXCEPT !.buffers = Append(@, canon),
                        !.active_buffer = Some(Len(ed.buffers))]

\* Vec::remove: the elements after idx shift left; idx counted from 0
Remove(seq, idx) == SubSeq(seq, 1, idx) \o SubSeq(seq, idx + 2, Len(seq))

\* Editor::close_buffer, editor.rs 106-114.  Vec::remove panics when idx is
\* not below the length.
close_buffer(ed, idx) ==
    IF ed.active_buffer = None THEN ed
    ELSE IF idx >= Len(ed.buffers) THEN [ed EXCEPT !.process = "panicked"]
    ELSE LET rest == Remove(ed.buffers, idx)
         IN  IF rest # <<>>
             THEN [ed EXCEPT !.buffers = rest, !.active_buffer = Some(Len(rest) - 1)]
             ELSE [ed EXCEPT !.buffers = rest]

\* Editor::next_buffer, editor.rs 116-123
next_buffer(ed) ==
    LET nb_buffers == Len(ed.buffers)
    IN  IF ed.active_buffer # None /\ nb_buffers > 1
        THEN [ed EXCEPT !.active_buffer = Some((ed.active_buffer.v + 1) % nb_buffers)]
        ELSE ed

\* Editor::prev_buffer, editor.rs 125-132
prev_buffer(ed) ==
    LET nb_buffer == Len(ed.buffers)
    IN  IF ed.active_buffer # None /\ nb_buffer > 1
        THEN [ed EXCEPT !.active_buffer =
                            Some((ed.active_buffer.v + nb_buffer - 1) % nb_buffer)]
        ELSE ed

\* the ? after a save: the handler returns the error and the run loop ends
\* with it (editor.rs 174); the mode is left as it was
Failed(ed) == [ed EXCEPT !.process = "failed"]

\* "bd" | "close", mode.rs 256-264 and keyboard.rs 216-224: the active buffer,
\* when there is one at that index, is saved; close_buffer is called either way
close_active(ed, saved, next) ==
    IF ed.active_buffer = None THEN [ed EXCEPT !.mode = next]
    ELSE IF buf_mut(ed) # None /\ ~saved THEN Failed(ed)
    ELSE [close_buffer(ed, ed.active_buffer.v) EXCEPT !.mode = next]

\* EditorMode::execute_command, mode.rs 233-282, and the same match in
\* keyboard.rs 192-243; saved: the write of the buffer's file succeeded
execute_command(cmd, ed, former_mode, saved) ==
    IF cmd = <<"q">> THEN [ed EXCEPT !.mode = Nav]
    ELSE IF cmd = <<"w">>
    THEN IF buf_mut(ed) # None /\ ~saved THEN Failed(ed)
         ELSE [ed EXCEPT !.mode = former_mode]
    ELSE IF cmd = <<"w", "q">>
    THEN IF buf_mut(ed) # None /\ ~saved THEN Failed(ed)
         ELSE [ed EXCEPT !.mode = Nav]
    ELSE IF cmd = <<"x">>
    THEN [ed EXCEPT !.mode = IF SameMode(former_mode, TreeNav)
                                 /\ ed.active_buffer # None
                              THEN Nav ELSE TreeNav]
    ELSE IF cmd = <<"b", "d">> THEN close_active(ed, saved, Nav)
    ELSE IF cmd = <<"b", "n">> THEN [next_buffer(ed) EXCEPT !.mode = former_mode]
    ELSE IF cmd = <<"b", "p">> THEN [prev_buffer(ed) EXCEPT !.mode = former_mode]
    ELSE [ed EXCEPT !.mode = former_mode]

\* EditorMode::handle_nav, mode.rs 119-151
handle_nav(key, ed) ==
    IF IsCtrl(key, "x") THEN [ed EXCEPT !.mode = TreeNav]
    ELSE IF IsCtrl(key, "n") THEN [next_buffer(ed) EXCEPT !.mode = Nav]
    ELSE IF IsCtrl(key, "p") THEN [prev_buffer(ed) EXCEPT !.mode = Nav]
    ELSE IF IsCtrl(key, "w")
    THEN IF ed.active_buffer # None
         THEN [close_buffer(ed, ed.active_buffer.v) EXCEPT !.mode = Nav]
         ELSE [ed EXCEPT !.mode = Nav]
    ELSE IF key.code = "Up" THEN [ed EXCEPT !.mode = Nav]
    ELSE IF IsCtrl(key, "q") THEN [ed EXCEPT !.mode = Nav]
    ELSE IF IsChar(key, "i") THEN [ed EXCEPT !.mode = Insert]
    ELSE IF IsChar(key, ":") THEN [ed EXCEPT !.mode = command(Nav)]
    ELSE [ed EXCEPT !.mode = Nav]

\* EditorMode::handle_insert, mode.rs 153-176
handle_insert(key, ed) ==
    IF key.code = "Esc" THEN [ed EXCEPT !.mode = Nav]
    ELSE [ed EXCEPT !.mode = Insert]

\* EditorMode::handle_tree, mode.rs 178-204; entered: what FileTree::enter
\* returns, the selected file's path or None on a directory (tree.rs 90-103)
handle_tree(key, ed, entered) ==
    IF key.code = "Enter"
    THEN IF entered # None THEN [open_file(ed, entered.v) EXCEPT !.mode = Nav]
         ELSE [ed EXCEPT !.mode = TreeNav]
    ELSE IF key.code = "Esc" THEN [ed EXCEPT !.mode = Nav]
    ELSE IF IsCtrl(key, "x") THEN [ed EXCEPT !.mode = Nav]
    ELSE IF IsChar(key, ":") THEN [ed EXCEPT !.mode = command(TreeNav)]
    ELSE [ed EXCEPT !.mode = TreeNav]

\* a handle_command in which ':' opens a command line over the one being typed
handle_command_nesting(key, ed, command_str, former_mode, saved) ==
    IF IsChar(key, ":") THEN [ed EXCEPT !.mode = command(ed.mode)]
    ELSE IF key.code = "Esc" THEN [ed EXCEPT !.mode = former_mode]
    ELSE [ed EXCEPT !.mode = Command(command_str, former_mode)]

\* EditorMode::handle_command, mode.rs 206-231
handle_command(key, ed, command_str, former_mode, saved) ==
    IF key.code = "Esc" THEN [ed EXCEPT !.mode = former_mode]
    ELSE IF key.code = "Enter"
    THEN execute_command(command_str, ed, former_mode, saved)
    ELSE LET typed == IF IsChar(key, ":") THEN <<>>
                      ELSE IF key.code = "Char" THEN Append(command_str, key.c)
                      ELSE IF key.code = "Backspace" /\ command_str # <<>>
                      THEN SubSeq(command_str, 1, Len(command_str) - 1)
                      ELSE command_str
         IN  [ed EXCEPT !.mode = Command(typed, former_mode)]

\* EditorMode::handle_key, mode.rs 46-56
handle_key(key, ed, entered, saved) ==
    IF ed.mode.k = "Nav" THEN handle_nav(key, ed)
    ELSE IF ed.mode.k = "Insert" THEN handle_insert(key, ed)
    ELSE IF ed.mode.k = "TreeNav" THEN handle_tree(key, ed, entered)
    ELSE handle_command(key, ed, ed.mode.command_str, ed.mode.former_mode, saved)

\* KeyboardHandler::handle_key with the handlers it dispatches to,
\* keyboard.rs 31-190
KeyboardHandler_handle_key(key, ed, entered, saved) ==
    IF IsCtrl(key, "q") THEN ed
    ELSE IF ed.mode.k = "Nav"
    THEN IF IsCtrl(key, "x") THEN [ed EXCEPT !.mode = TreeNav]
         ELSE IF IsCtrl(key, "n") THEN next_buffer(ed)
         ELSE IF IsCtrl(key, "p") THEN prev_buffer(ed)
         ELSE IF IsCtrl(key, "w")
         THEN IF ed.active_buffer # None
              THEN close_buffer(ed, ed.active_buffer.v) ELSE ed
         ELSE IF key.code = "Up" THEN ed
         ELSE IF IsChar(key, "i") THEN [ed EXCEPT !.mode = Insert]
         ELSE IF IsChar(key, ":") THEN [ed EXCEPT !.mode = command(Nav)]
         ELSE ed
    ELSE IF ed.mode.k = "Insert"
    THEN IF key.code = "Esc" THEN [ed EXCEPT !.mode = Nav] ELSE ed
    ELSE IF ed.mode.k = "TreeNav"
    THEN IF key.code = "Enter"
         THEN IF entered # None
              THEN [open_file(ed, entered.v) EXCEPT !.mode = Nav] ELSE ed
         ELSE IF key.code = "Esc" \/ IsCtrl(key, "x") THEN [ed EXCEPT !.mode = Nav]
         ELSE IF IsChar(key, ":") THEN [ed EXCEPT !.mode = command(TreeNav)]
         ELSE ed
    ELSE LET command_str == ed.mode.command_str
             former_mode == ed.mode.former_mode
         IN  IF key.code = "Backspace" /\ command_str = <<>>
             THEN [ed EXCEPT !.mode = former_mode]
             ELSE IF key.code = "Esc" THEN [ed EXCEPT !.mode = former_mode]
             ELSE IF key.code = "Enter"
             THEN execute_command(command_str, ed, former_mode, saved)
             ELSE LET typed ==
                          IF IsChar(key, ":") THEN <<>>
                          ELSE IF key.code = "Char" THEN Append(command_str, key.c)
                          ELSE IF key.code = "Backspace"
                          THEN SubSeq(command_str, 1, Len(command_str) - 1)
                          ELSE command_str
                  IN  [ed EXCEPT !.mode = Command(typed, former_mode)]

\* the state after Editor::new on a directory
InitEditor ==
    /\ LET ed == new_editor(<<"/", "p">>, TRUE)
       IN  /\ mode = ed.mode
           /\ buffers = ed.buffers
           /\ active_buffer = ed.active_buffer
           /\ process = ed.process
    /\ last_key = None

\* the command line stays within MaxCommand characters
Typable(key) ==
    mode.k = "Command" /\ key.code = "Char" /\ ~IsChar(key, ":")
        => Len(mode.command_str) < MaxCommand

\* a handler ran on a key event and left the editor as ed
Handled(key, ed, by) ==
    /\ mode' = ed.mode
    /\ buffers' = ed.buffers
    /\ active_buffer' = ed.active_buffer
    /\ process' = ed.process
    /\ last_key' = Some([key |-> key, from |-> mode, by |-> by])
    /\ UNCHANGED <<lspVars, diagVars, complVars, fnVars, lockVars>>

\* the run loop hands a key event to EditorMode::handle_key
HandleKey(key, entered, saved) ==
    /\ process = "running"
    /\ Typable(key)
    /\ Handled(key, handle_key(key, Editor, entered, saved), "EditorMode")

\* the run loop hands a key event to KeyboardHandler::handle_key
KeyboardHandleKey(key, entered, saved) ==
    /\ process = "running"
    /\ Typable(key)
    /\ Handled(key, KeyboardHandler_handle_key(key, Editor, entered, saved),
               "KeyboardHandler")

(***************************************************************************)
(* Specifications.                                                         *)
(***************************************************************************)
\* no function applied
InitFn ==
    /\ fn_in = None
    /\ fn_out = None

Init ==
    /\ InitLsp
    /\ InitDiag
    /\ InitLocks
    /\ InitEditor
    /\ completion = new
    /\ doc_for = 0
    /\ resolve_log = <<>>
    /\ InitFn

\* the session's receiving side against an arbitrary server
Next ==
    \/ ServerSend
    \/ ServerExit
    \/ ReaderReceive
    \/ ReaderClassify
    \/ \E id \in PollIds : GetResponse(id)
    \/ ProcessServerRequests
    \/ AckNext

Spec == Init /\ [][Next]_vars

\* initialize() and its wait against a server that may reply or exit; the
\* owner's thread keeps running and its clock (Instant, monotonic, 5 ms
\* slept per turn) passes the timeout
NextWait ==
    \/ Initialize
    \/ WaitPoll
    \/ ServerReply
    \/ ServerExit
    \/ ReaderReceive
    \/ ReaderClassify

\* a turn of the loop that returns or in which the clock passes the timeout
WaitProgress == WaitPoll /\ (pc' = "idle" \/ elapsed' = "over")

\* Weak fairness of WaitProgress, written out: WF_vars(A) is
\* []<>~ENABLED <<A>>_vars \/ []<><<A>>_vars, and WaitProgress is enabled
\* exactly when the loop is running (pc = "wait": WaitPoll has no other guard
\* and each of its branches changes pc or elapsed).
SpecWait ==
    /\ Init
    /\ [][NextWait]_vars
    /\ ([]<>(pc # "wait") \/ []<><<WaitProgress>>_vars)

\* the threads of a session and of its lint runs, statement by statement
NextLocks ==
    \/ MainStep
    \/ ReaderStep
    \/ \E r \in Runners : RunnerStep(r)

SpecLocks == Init /\ [][NextLocks]_vars

\* the same, the session dropped at some point
SpecSession == Init /\ [][Next \/ Drop]_vars

\* the session's sending side against a server that keeps to the protocol
NextClient ==
    \/ Initialize
    \/ WaitPoll
    \/ Len(sent) < MaxSent /\ \E u \in Uris, text \in Texts : DidOpen(u, text)
    \/ Len(sent) < MaxSent /\ \E text \in Texts : DidChange(text)
    \/ RequestCompletion
    \/ ResolveCompletion
    \/ AckNext
    \/ ServerReply
    \/ ServerAsk
    \/ ServerExit
    \/ ReaderReceive
    \/ ReaderClassify

SpecClient == Init /\ [][NextClient]_vars

\* one document after the other notified to the server
NextDocs ==
    \/ \E u \in Uris, text \in Texts : DidOpen(u, text)
    \/ \E text \in Texts : DidChange(text)
    \/ ServerExit

SpecDocs == Init /\ [][NextDocs]_vars

\* lint runs on one shared DiagnosticState
NextDiag ==
    \/ SpawnCargoCheck
    \/ \E t \in DOMAIN runners : RunnerStart(t)
    \/ \E t \in DOMAIN runners, outcome \in CargoOutcomes :
          RunnerFinish(t, outcome)

SpecDiag == Init /\ [][NextDiag]_vars

\* the same, every started thread scheduled and every cargo subprocess
\* ending (by terminating, or by failing to launch)
SpecDiagFair ==
    /\ Init
    /\ [][NextDiag]_vars
    /\ \A t \in 1..MaxSpawns :
          /\ WF_vars(t \in DOMAIN runners /\ RunnerStart(t))
          /\ WF_vars(/\ t \in DOMAIN runners
                     /\ \E outcome \in CargoOutcomes : RunnerFinish(t, outcome))

\* parse_diagnostics on what cargo may print
InitParse ==
    /\ InitLsp
    /\ InitDiag
    /\ InitLocks
    /\ InitEditor
    /\ completion = new
    /\ doc_for = 0
    /\ resolve_log = <<>>
    /\ fn_in \in CargoPrints
    /\ fn_out = None

SpecParse == InitParse /\ [][ParseDiagnostics]_vars

\* a payload framed by send_raw and read back, alone or with another behind
InitRoundTrip ==
    /\ InitLsp
    /\ InitDiag
    /\ InitLocks
    /\ InitEditor
    /\ completion = new
    /\ doc_for = 0
    /\ resolve_log = <<>>
    /\ \E m \in Payloads, next \in Payloads \cup {None} :
          fn_in = [msg |-> m, next |-> next]
    /\ fn_out = None

SpecRoundTrip == InitRoundTrip /\ [][WriteThenRead]_vars

\* filter on a completion list
InitFilter ==
    /\ InitLsp
    /\ InitDiag
    /\ InitLocks
    /\ InitEditor
    /\ completion \in Sessions
    /\ doc_for = 0
    /\ resolve_log = <<>>
    /\ InitFn

SpecFilter == InitFilter /\ [][\E prefix \in Prefixes : Filter(prefix)]_vars

\* the messages the reader may have parsed: any of id, method, result and
\* error present, the id an integer, a string or null
ClassifyInputs ==
    {JObj([key \in keys |-> IF key = "id" THEN id
                            ELSE IF key = "method" THEN JStr(<<"m">>)
                            ELSE JInt(1)]) :
        keys \in SUBSET {"id", "method", "result", "error"},
        id \in {JInt(1), JInt(2), JStr(<<"x">>), JNull}}

\* the reader about to classify a message it parsed, the registry and the
\* queue empty or holding an earlier message
InitClassify ==
    /\ writer = <<>>
    /\ responses \in {EmptyMap, insert(EmptyMap, 1, Response(JInt(1), 1))}
    /\ server_requests \in {<<>>, <<ServerRequest(JInt(7), 1)>>}
    /\ enqueued = server_requests
    /\ next_id = 1
    /\ uri = <<"f", "i", "l", "e", ":", "/", "/", "/", "a">>
    /\ version = 0
    /\ server_stdin = <<>>
    /\ server_stdout = <<>>
    /\ server_exited = FALSE
    /\ reader_pc = "classify"
    /\ reader_json \in ClassifyInputs
    /\ reader_log = <<reader_json>>
    /\ pc = "idle"
    /\ reqs = <<>>
    /\ caller = None
    /\ wait_id = 0
    /\ elapsed = "within"
    /\ server_log = <<>>
    /\ sent = <<>>
    /\ last_get = None
    /\ last_wait = None
    /\ drained = None
    /\ delivered = <<>>
    /\ InitDiag
    /\ InitLocks
    /\ InitEditor
    /\ completion = new
    /\ doc_for = 0
    /\ resolve_log = <<>>
    /\ InitFn

SpecClassify == InitClassify /\ [][ReaderClassify]_vars

\* the lint command's directory, for any edited file and any directory the
\* editor was started in
InitLintDir ==
    /\ InitLsp
    /\ InitDiag
    /\ InitLocks
    /\ InitEditor
    /\ completion = new
    /\ doc_for = 0
    /\ resolve_log = <<>>
    /\ fn_in \in [file : EditedFiles, cwd : Dirs]
    /\ fn_out = None

SpecLintDir == InitLintDir /\ [][LintDir]_vars

\* parse_completions on a completion response
InitItems ==
    /\ InitLsp
    /\ InitDiag
    /\ InitLocks
    /\ InitEditor
    /\ completion = new
    /\ doc_for = 0
    /\ resolve_log = <<>>
    /\ fn_in \in CompletionResponses
    /\ fn_out = None

SpecItems == InitItems /\ [][ParseCompletions]_vars

\* any sequence of move_up, move_down, filter and clear, from a list with
\* its selection in range or from an empty list
InitSelection ==
    /\ InitLsp
    /\ InitDiag
    /\ InitLocks
    /\ InitEditor
    /\ completion \in Sessions \cup {[new EXCEPT !.selected = k] : k \in 1..MaxItems}
    /\ doc_for = 0
    /\ resolve_log = <<>>
    /\ InitFn

NextSelection ==
    \/ CallMoveDown
    \/ CallMoveUp
    \/ \E prefix \in Prefixes : CallFilter(prefix)
    \/ CallClear

SpecSelection == InitSelection /\ [][NextSelection]_vars

\* Editor::new on a directory or on a file, then key events
InitKeys ==
    /\ InitLsp /\ InitDiag /\ InitLocks
    /\ completion = new /\ doc_for = 0 /\ resolve_log = <<>>
    /\ InitFn
    /\ \E ed \in {new_editor(<<"/", "p">>, TRUE),
                  new_editor(<<"/", "p", "/", "a", ".", "r", "s">>, FALSE)} :
           /\ mode = ed.mode
           /\ buffers = ed.buffers
           /\ active_buffer = ed.active_buffer
           /\ process = ed.process
    /\ last_key = None

NextKeys ==
    \E key \in Keys, entered \in {None} \cup {Some(path) : path \in TreeFiles},
       saved \in BOOLEAN :
        \/ HandleKey(key, entered, saved)
        \/ KeyboardHandleKey(key, entered, saved)

SpecKeys == InitKeys /\ [][NextKeys]_vars

\* a key event was handled in mode from
Pressed(code, from) ==
    /\ last_key # None
    /\ last_key.v.key.code = code
    /\ last_key.v.from.k = from

\* C33: over any sequence of key events the former mode stored in a Command
\* mode is Nav or TreeNav, never Command or Insert, so Command modes nest at
\* most one level deep; and Esc pressed in Command mode leaves the editor in
\* a mode that is not Command.
C33_FormerModeIsNavOrTreeNav ==
    /\ mode.k = "Command" =>
           /\ mode.former_mode.k \in {"Nav", "TreeNav"}
           /\ mode.former_mode.k \notin {"Command", "Insert"}
    /\ Depth(mode) <= 1
    /\ Pressed("Esc", "Command") => mode.k # "Command"

\* Esc pressed on a command line opened from the tree: the tree is back
C33_Witness ==
    /\ Pressed("Esc", "Command")
    /\ last_key.v.from.former_mode = TreeNav
    /\ last_key.v.from.command_str # <<>>
    /\ mode = TreeNav

\* C35: after any sequence of open_file, close_buffer, next_buffer and
\* prev_buffer, active_buffer is None or an index below the number of
\* buffers, so closing the active buffer never removes at an index out of
\* range (Vec::remove would panic).
C35_ActiveBufferValid ==
    /\ active_buffer # None => active_buffer.v < Len(buffers)
    /\ process # "panicked"

\* the only buffer was closed and Ctrl-W pressed once more
C35_RemovedOutOfRange ==
    /\ process = "panicked"
    /\ buffers = <<>>
    /\ active_buffer = Some(0)
    /\ last_key.v.key = Ctrl("w")

\* a completion list scrolled and cleared
SpecClear == InitFilter /\ [][ScrollDown \/ ScrollUp \/ Clear]_vars

\* a completion list on screen, its items resolved as the selection moves
InitListing ==
    /\ InitLsp
    /\ InitDiag
    /\ InitLocks
    /\ InitEditor
    /\ \E n \in 2..MaxItems : completion = Listing(n)
    /\ doc_for = 0
    /\ resolve_log = <<>>
    /\ InitFn

NextCompletion ==
    \/ MoveDown
    \/ MoveUp
    \/ IssueResolve
    \/ PollResolve
    \/ ServerReply
    \/ ReaderReceive
    \/ ReaderClassify

SpecCompletion == InitListing /\ [][NextCompletion]_vars

(***************************************************************************)
(* Claims about the session under an arbitrary server (Spec).              *)
(***************************************************************************)
NoDuplicates(seq) == \A i, j \in DOMAIN seq : i # j => seq[i] # seq[j]

\* C1: a response the reader inserted under id N is handed out by exactly one
\* get_response(N): a call returns what the registry holds for N at that
\* moment (nothing when it holds nothing) and leaves no entry for N, no
\* response is ever returned twice, and nothing is returned that the reader
\* did not parse.
C1_ReturnedExactlyOnce ==
    /\ last_get # None =>
          /\ last_get.ret = last_get.held
          /\ ~last_get.left
    /\ NoDuplicates(delivered)
    /\ \A i \in DOMAIN delivered : delivered[i] \in Range(reader_log)

\* C1 witness: a response for N was returned, and the latest get_response(N)
\* returned nothing, while the reader is about to insert another message
C1_Witness ==
    /\ last_get # None
    /\ last_get.ret = None
    /\ \E i \in DOMAIN delivered : AsI64(Index(delivered[i], "id")) = Some(last_get.id)
    /\ reader_pc = "classify"

\* the well-formed messages among the frames written so far, in order
GoodMessages(log) ==
    LET good == SelectSeq(log, LAMBDA f : f.kind = "good")
    IN  [i \in DOMAIN good |-> good[i].json]

\* the reader has read all it can and waits for more bytes
ReaderWaits ==
    /\ reader_pc = "read"
    /\ receive_one(server_stdout, server_exited).st = "block"

\* C5: a message without a valid Content-Length costs that one message only:
\* whenever the reader waits for more input, every well-formed message the
\* server wrote so far has been parsed (and so classified and delivered).
C5_OnlyThatMessageDropped ==
    ReaderWaits => reader_log = GoodMessages(server_log)

\* C6: once the reader has exited, the registry never gains or changes an
\* entry; get_response can still be called and returns at once; and a call
\* made after the exit returns what the registry holds (the responses stored
\* before the exit, nothing for the other ids).
C6_AfterReaderExit ==
    /\ [][reader_pc = "exited" =>
            /\ reader_pc' = "exited"
            /\ \A id \in DOMAIN responses' :
                  id \in DOMAIN responses /\ responses'[id] = responses[id]]_vars
    /\ [](reader_pc = "exited" /\ pc = "idle" =>
            \A id \in PollIds : ENABLED GetResponse(id))
    /\ []((last_get # None /\ last_get.reader_exited) =>
            last_get.ret = last_get.held)

\* C6 witness: a response stored before the reader exited was retrieved after
C6_Witness ==
    /\ last_get # None
    /\ last_get.reader_exited
    /\ last_get.ret # None

\* the responses this client wrote: an id and a result, no method
Acks == SelectSeq(sent, LAMBDA m : Get(m, "result") # None /\ Get(m, "method") = None)
IdsOf(msgs) == [i \in DOMAIN msgs |-> Index(msgs[i], "id")]

\* C10: the server requests answered so far, those taken and still to answer,
\* and those still queued make up, in this order, exactly the requests the
\* reader enqueued: each is answered once, in arrival order, with its own id
\* and a null result, none is lost, and process_server_requests returns only
\* when it has answered all it took.
C10_EveryRequestAnsweredOnce ==
    /\ IdsOf(Acks) \o IdsOf(reqs) \o IdsOf(server_requests) = IdsOf(enqueued)
    /\ \A i \in DOMAIN Acks : Get(Acks[i], "result") = JNull
    /\ pc # "ack" => reqs = <<>>

\* C10 witness: a request has been taken and is about to be answered while
\* the reader has already pushed another one, with another id
C10_Witness ==
    /\ pc = "ack"
    /\ Len(reqs) = 1
    /\ Len(server_requests) = 1
    /\ Index(reqs[1], "id") # Index(server_requests[1], "id")

(***************************************************************************)
(* C2: request ids.                                                        *)
(***************************************************************************)
\* C2: over any sequence of initialize, request_completion and
\* resolve_completion calls the ids issued are strictly increasing and none is
\* issued twice: the n-th request of the session, whatever its kind, carries
\* id n, and next_id is one more than the number of requests issued.
C2_IdsStrictlyIncreasing ==
    /\ \A i \in DOMAIN RequestsSent : Index(RequestsSent[i], "id") = JInt(i)
    /\ \A i, j \in DOMAIN RequestsSent :
          i < j => AsI64(Index(RequestsSent[i], "id")).v
                     < AsI64(Index(RequestsSent[j], "id")).v
    /\ next_id = Len(RequestsSent) + 1

\* C2 witness: two requests of different kinds have been issued
C2_Witness ==
    /\ Len(RequestsSent) = 2
    /\ Index(RequestsSent[1], "method") # Index(RequestsSent[2], "method")

(***************************************************************************)
(* C8: didChange versions.                                                 *)
(***************************************************************************)
IsDidChange(m) == Get(m, "method") = JStr(M_didChange)
ChangesSent == SelectSeq(sent, IsDidChange)
DocUri(m) == Index(Index(Index(m, "params"), "textDocument"), "uri")
DocVersion(m) == AsI64(Index(Index(Index(m, "params"), "textDocument"), "version")).v

\* C8: over any sequence of did_open and did_change calls, the versions
\* carried by the didChange notifications sent for one document URI are
\* strictly increasing.
C8_VersionsStrictlyIncreasing ==
    \A i, j \in DOMAIN ChangesSent :
        (i < j /\ DocUri(ChangesSent[i]) = DocUri(ChangesSent[j]))
            => DocVersion(ChangesSent[i]) < DocVersion(ChangesSent[j])

(***************************************************************************)
(* C9: outbound order.                                                     *)
(***************************************************************************)
\* the bytes of the messages msgs, each framed, one after the other
Wire(msgs) == Flatten([i \in DOMAIN msgs |-> Frame(to_string(msgs[i]))])

\* C9: every step that sends messages appends to the server's stdin the
\* frames of just these messages, whole, in the order of the calls, and
\* leaves nothing in the writer's buffer; no other step of the client
\* writes to the server's stdin.  (Once the server has exited its stdin
\* takes no more bytes.)
C9_OutboundInCallOrder ==
    [][/\ Len(sent') >= Len(sent)
       /\ SubSeq(sent', 1, Len(sent)) = sent
       /\ IF server_exited
          THEN server_stdin' = server_stdin
          ELSE /\ server_stdin' =
                    server_stdin \o Wire(SubSeq(sent', Len(sent) + 1, Len(sent')))
               /\ writer' = <<>>]_vars

\* C9 witness: two didChange notifications, then a request, all on the wire
C9_Witness ==
    /\ ~server_exited
    /\ Len(sent) >= 3
    /\ Len(ChangesSent) = 2
    /\ server_stdin # <<>>

(***************************************************************************)
(* C3, C4: lint runs (SpecDiag).                                           *)
(***************************************************************************)
\* the runs in flight: threads started that have not stored their result
LiveRuns == {t \in DOMAIN runners : runners[t] # "done"}

\* C3: for one shared DiagnosticState, whatever the interleaving of
\* spawn_cargo_check calls and runner threads, at most one run is live.
C3_AtMostOneLiveRun == Cardinality(LiveRuns) <= 1

\* C4: a spawn_cargo_check call that finds is_running set starts no thread
\* and leaves is_running and the diagnostics as they were.
C4_SpawnWhileRunningIsNoOp ==
    [][(Len(spawn_log') = Len(spawn_log) + 1 /\ is_running) =>
          /\ runners' = runners
          /\ is_running' = is_running
          /\ diagnostics' = diagnostics]_vars

\* C4 witness: spawn_cargo_check was called while a run had the flag set
C4_Witness ==
    \E i \in DOMAIN spawn_log : spawn_log[i].is_running /\ spawn_log[i].started = 0

(***************************************************************************)
(* C7: the stale-resolve guard (SpecCompletion).                           *)
(***************************************************************************)
\* a step that processes the reply of the pending resolve
ResolveArrives ==
    /\ completion.resolve_id # None
    /\ completion'.resolve_id = None
    /\ last_get' # last_get

\* C7: processing the reply of a resolve tagged i while the selection is at
\* j # i leaves doc unchanged, a reply is applied only when its tag is the
\* selected index, and so the documentation shown is always the one resolved
\* for the selected item.
C7_StaleResolveDiscarded ==
    /\ [][ResolveArrives =>
            /\ completion.resolve_id.v[2] # completion.selected
                  => completion'.doc = completion.doc
            /\ completion'.doc # completion.doc
                  => completion.resolve_id.v[2] = completion.selected]_vars
    /\ [](completion.doc # None => doc_for = completion.selected)

\* C7 witness: a reply carrying documentation was processed for a resolve
\* tagged with another index than the one selected by then, and dropped
C7_Witness ==
    \E i \in DOMAIN resolve_log :
        /\ resolve_log[i].tag # resolve_log[i].selected
        /\ resolve_log[i].documentation # None
        /\ resolve_log[i].doc = None

(***************************************************************************)
(* C11: request_completion drains first (SpecClient).                      *)
(***************************************************************************)
IsAckOf(m, req) ==
    /\ Get(m, "method") = None
    /\ Get(m, "result") = JNull
    /\ Index(m, "id") = Index(req, "id")
IsCompletionRequest(m) == Get(m, "method") = JStr(M_completion)

\* C11: of the latest request_completion call, the server requests queued
\* when it was called are acknowledged, one message each and in order, right
\* after the messages sent before the call; while acknowledgements are still
\* to be written no textDocument/completion request has been written, and
\* once the call is over its request follows the last acknowledgement.
C11_DrainedBeforeCompletion ==
    (drained # None /\ drained.who = "request_completion") =>
        LET n == Len(drained.queued)
            done == IF pc = "ack" THEN n - Len(reqs) ELSE n
        IN  /\ Len(sent) >= drained.at + done
            /\ \A i \in 1..done : IsAckOf(sent[drained.at + i], drained.queued[i])
            /\ IF pc = "ack"
               THEN Len(sent) = drained.at + done
               ELSE /\ Len(sent) > drained.at + n
                    /\ IsCompletionRequest(sent[drained.at + n + 1])

\* C11 witness: request_completion found a server request queued, and has
\* returned
C11_Witness ==
    /\ drained # None
    /\ drained.who = "request_completion"
    /\ drained.queued # <<>>
    /\ pc = "idle"
    /\ \E i \in DOMAIN sent : IsCompletionRequest(sent[i])

(***************************************************************************)
(* C12: the initialize handshake (SpecClient).                             *)
(***************************************************************************)
IsInitialize(m) == Get(m, "method") = JStr(M_initialize)
IsInitialized(m) == Get(m, "method") = JStr(M_initialized)

\* C12: while initialize() waits, the last message written is its initialize
\* request (nothing else is sent in between); the initialized notification
\* is written only by the step that ends the wait, and that step either took
\* the reply for the request's id from the registry or found the timeout
\* over.
C12_InitializeWaitsThenInitialized ==
    /\ [](pc = "wait" =>
            /\ sent # <<>>
            /\ IsInitialize(sent[Len(sent)])
            /\ Index(sent[Len(sent)], "id") = JInt(wait_id))
    /\ [][(Len(sent') > Len(sent) /\ IsInitialized(sent'[Len(sent')])) =>
            /\ pc = "wait"
            /\ pc' = "idle"
            /\ sent' = Append(sent, sent'[Len(sent')])
            /\ last_get'.id = wait_id
            /\ last_get'.ret # None \/ elapsed = "over"
            /\ last_get'.ret # None => last_get'.ret \notin Range(delivered)]_vars

\* C12 witness: initialize() returned after its reply was taken, initialized
\* being the last message written
C12_Witness ==
    /\ last_wait # None
    /\ last_wait.ret # None
    /\ pc = "idle"
    /\ IsInitialized(sent[Len(sent)])

\* the latest run that completed
LastRun == run_log[Len(run_log)]

\* C13: every lint run that starts completes, and the step that completes it
\* stores the run's list and clears is_running together, whatever cargo
\* did; the list changes in no other step, so nobody sees a run's list
\* while the flag is still set for that run.
C13_RunCompletesAtomically ==
    /\ \A t \in 1..MaxSpawns :
          (t \in DOMAIN runners /\ runners[t] # "done")
              ~> (t \in DOMAIN runners /\ runners[t] = "done")
    /\ [][\A t \in DOMAIN runners :
              (runners[t] # "done" /\ runners'[t] = "done") =>
                  /\ Len(run_log') = Len(run_log) + 1
                  /\ run_log'[Len(run_log')].t = t
                  /\ diagnostics' = run_log'[Len(run_log')].diags
                  /\ ~is_running']_vars
    /\ [][diagnostics' # diagnostics =>
              /\ Len(run_log') = Len(run_log) + 1
              /\ ~is_running']_vars

\* C13 witness: three runs completed, one where cargo could not be launched,
\* one whose output was unparseable, one with a diagnostic parsed
C13_Witness ==
    /\ \E i \in DOMAIN run_log : ~run_log[i].outcome.launched
    /\ \E i \in DOMAIN run_log :
          run_log[i].outcome = Ran(Stdout(<<GarbageLine>>))
    /\ \E i \in DOMAIN run_log :
          run_log[i].outcome.launched /\ run_log[i].diags # <<>>
    /\ \A t \in DOMAIN runners : runners[t] = "done"
    /\ ~is_running

\* C14: when cargo cannot be launched, the run publishes exactly one
\* diagnostic, of severity error, with no line and no column, clears
\* is_running, and its thread ends normally.
C14_LaunchFailureOneErrorNoLocation ==
    [][(Len(run_log') > Len(run_log) /\ ~LastRun'.outcome.launched) =>
          /\ Len(diagnostics') = 1
          /\ diagnostics'[1].level = "Error"
          /\ diagnostics'[1].line = None
          /\ diagnostics'[1].column = None
          /\ ~is_running'
          /\ runners'[LastRun'.t] = "done"]_vars

\* C14 witness: the latest run could not launch cargo, and its list is the
\* one published
C14_Witness ==
    /\ run_log # <<>>
    /\ ~LastRun.outcome.launched
    /\ diagnostics = LastRun.diags
    /\ ~is_running

\* a record of the output, read as the lint command means it
IsCompilerMessage(rec) == rec # None /\ Get(rec, "reason") = JStr(S_COMPILER_MESSAGE)
HasSeverity(rec, level) == Get(Get(rec, "message"), "level") = JStr(level)
SpansOf(rec) ==
    LET spans == Get(Get(rec, "message"), "spans")
    IN  IF spans.k = "arr" THEN spans.v ELSE <<>>
PrimarySpan(rec) ==
    LET primary == SelectSeq(SpansOf(rec),
                             LAMBDA sp : Get(sp, "is_primary") = JBool(TRUE))
    IN  IF primary = <<>> THEN None ELSE primary[1]
\* the file a span resolves to: its file_name joined with the project
\* directory and canonicalized; None when there is no span, no file_name,
\* or no such file
ResolvedFile(span) ==
    IF Get(span, "file_name").k # "str" THEN None
    ELSE canonicalize(PathJoin(find_project_dir(TargetFile).v,
                               Get(span, "file_name").v))
\* the record is among the diagnostics (the records' messages differ)
Published(rec, diags) ==
    \E i \in DOMAIN diags : JStr(diags[i].message) = Get(Get(rec, "message"), "message")
Parsed == fn_in # None /\ "output" \in DOMAIN fn_in /\ fn_out # None

\* C15: when the output holds a record of severity error or warning whose
\* primary span resolves to the edited file, and a warning with no span,
\* the diagnostics published hold the first and not the second.
C15_PrimaryInFileKeptSpanlessWarningDropped ==
    Parsed =>
        \A i, j \in DOMAIN fn_in.records :
            LET r1 == fn_in.records[i]
                r2 == fn_in.records[j]
            IN  ( /\ IsCompilerMessage(r1)
                  /\ HasSeverity(r1, S_ERROR) \/ HasSeverity(r1, S_WARNING)
                  /\ ResolvedFile(PrimarySpan(r1)) = Some(TargetFile)
                  /\ IsCompilerMessage(r2)
                  /\ HasSeverity(r2, S_WARNING)
                  /\ SpansOf(r2) = <<>> )
                => (Published(r1, fn_out.v) /\ ~Published(r2, fn_out.v))

\* C16: a compiler message whose primary span resolves to no file (no span,
\* a span without file_name, or a file_name that joined with the project
\* directory names no file) is published if it is an error and left out if
\* it is a warning.
C16_UnresolvedKeptIffError ==
    Parsed =>
        \A i \in DOMAIN fn_in.records :
            LET rec == fn_in.records[i]
            IN  ( /\ IsCompilerMessage(rec)
                  /\ HasSeverity(rec, S_ERROR) \/ HasSeverity(rec, S_WARNING)
                  /\ ResolvedFile(PrimarySpan(rec)) = None )
                => (Published(rec, fn_out.v) <=> HasSeverity(rec, S_ERROR))

\* C17: every published diagnostic with a location carries the 0-based line
\* and column of its record's primary span: line_start L and column_start C
\* give line L-1 and column C-1.
C17_LineAndColumnZeroBased ==
    Parsed =>
        \A i \in DOMAIN fn_in.records, k \in DOMAIN fn_out.v :
            LET rec == fn_in.records[i]
                d == fn_out.v[k]
                span == PrimarySpan(rec)
            IN  ( /\ IsCompilerMessage(rec)
                  /\ JStr(d.message) = Get(Get(rec, "message"), "message")
                  /\ span # None )
                => /\ d.line = Some(Get(span, "line_start").v - 1)
                   /\ d.column = Some(Get(span, "column_start").v - 1)

\* filter has been applied
Filtered == fn_in # None /\ "prefix" \in DOMAIN fn_in /\ fn_out # None

\* the text without regard to letter case: every letter by its lower form
Fold(str) == to_lowercase(str)
\* prefix occurs in the item's label or insert text, letter case aside
Matching(item, prefix) ==
    \E text \in {item.label, item.insert_text} :
        \E from \in 1..(Len(text) + 1), to \in 0..Len(text) :
            Fold(SubSeq(text, from, to)) = Fold(prefix)
\* the k-th (in increasing order) of a set of indices
Nth(indices, k) == CHOOSE i \in indices : Cardinality({j \in indices : j <= i}) = k
LabelsOf(items) == [i \in DOMAIN items |-> items[i].label]

\* C18: after filter(prefix) the items are exactly the former items that
\* match prefix, in their former order; [foo, bar, foobar] filtered by "foo"
\* in any letter case gives [foo, foobar].
C18_FilterKeepsExactlyMatches ==
    Filtered =>
        LET before == fn_in.before.items
            after == fn_out.v.items
            matches == {i \in DOMAIN before : Matching(before[i], fn_in.prefix)}
        IN  /\ Len(after) = Cardinality(matches)
            /\ \A k \in DOMAIN after : after[k] = before[Nth(matches, k)]
            /\ ( /\ LabelsOf(before) = << <<"f", "o", "o">>, <<"b", "a", "r">>,
                                          <<"f", "o", "o", "b", "a", "r">> >>
                  /\ Fold(fn_in.prefix) = <<"f", "o", "o">> )
                => LabelsOf(after) = << <<"f", "o", "o">>,
                                       <<"f", "o", "o", "b", "a", "r">> >>

\* C18 witness: [foo, bar, foobar] filtered by "FOO" leaves [foo, foobar]
C18_Witness ==
    /\ Filtered
    /\ LabelsOf(fn_in.before.items) = << <<"f", "o", "o">>, <<"b", "a", "r">>,
                                         <<"f", "o", "o", "b", "a", "r">> >>
    /\ fn_in.prefix = <<"F", "O", "O">>
    /\ LabelsOf(fn_out.v.items) = << <<"f", "o", "o">>,
                                     <<"f", "o", "o", "b", "a", "r">> >>

\* C19: after filter(prefix), if no item matched the state is idle (no
\* items, selected 0, no request id, no resolve pair, no doc); otherwise
\* selected is the smaller of the former selected and the new last index.
C19_FilterCollapsesOrClamps ==
    Filtered =>
        LET before == fn_in.before
            after == fn_out.v
            last == Len(after.items) - 1
        IN  IF \A i \in DOMAIN before.items :
                   ~Matching(before.items[i], fn_in.prefix)
            THEN /\ after.items = <<>>
                 /\ after.selected = 0
                 /\ after.request_id = None
                 /\ after.resolve_id = None
                 /\ after.doc = None
            ELSE /\ after.selected <= before.selected
                 /\ after.selected <= last
                 /\ after.selected = before.selected \/ after.selected = last

\* C19 witness: a prior selection past the new last index was clamped to it
C19_Witness ==
    /\ Filtered
    /\ fn_out.v.items # <<>>
    /\ fn_in.before.selected > Len(fn_out.v.items) - 1
    /\ fn_out.v.selected = Len(fn_out.v.items) - 1

\* a payload was framed and read back
ReadBack == fn_in # None /\ "msg" \in DOMAIN fn_in /\ fn_out # None

\* C20: the frame send_raw writes for a message is read back by the
\* reader's loop as that message, and the read ends where the next frame
\* starts: a second message written behind it is read back as well, and
\* with nothing behind it the stream is used up.
C20_FrameRoundTrip ==
    ReadBack =>
        /\ fn_out.v.first.st = "msg"
        /\ fn_out.v.first.json = fn_in.msg
        /\ IF fn_in.next = None
           THEN fn_out.v.first.rest = <<>>
           ELSE /\ fn_out.v.first.rest = Frame(to_string(fn_in.next))
                /\ fn_out.v.second.st = "msg"
                /\ fn_out.v.second.json = fn_in.next
                /\ fn_out.v.second.rest = <<>>

\* C20 witness: a nested payload with a two-byte character was read back,
\* and so was the message behind it
C20_Witness ==
    /\ ReadBack
    /\ fn_in.msg = JObj([params |-> JObj([items |->
            JArr(<<JObj([label |-> JStr(<<"n", "U+00E9", "e">>)])>>)])])
    /\ fn_in.next = JStr(<<"U+00E9", "U+00E9", "U+00E9", "U+00E9">>)
    /\ fn_out.v.first.json = fn_in.msg
    /\ fn_out.v.second.json = fn_in.next

\* C21: once the session has been dropped its language server is not alive.
C21_NoServerAfterDrop == pc = "dropped" => server_exited

\* C22: a thread about to write to the server, read from it or run cargo
\* holds none of the three guards, and a guard taken is given up by its
\* holder's very next statement.
C22_NoGuardAcrossIo ==
    /\ [](\A t \in Threads :
            at[t] \in PipeStatements => \A l \in DOMAIN holder : holder[l] # t)
    /\ [][\A l \in DOMAIN holder :
             (holder[l] # "free" /\ at'[holder[l]] # at[holder[l]])
                 => holder'[l] # holder[l]]_vars

\* C22 witness: every guard is held, each by another thread, while a lint
\* thread runs cargo
C22_Witness ==
    /\ holder["responses"] = "reader"
    /\ holder["server_requests"] = "main"
    /\ holder["state"] = "runner1"
    /\ at["runner2"] = "cargo"

\* C23: a wait_response call returns; a poll that finds the response takes
\* it from the registry and returns it; a return without a response happens
\* only once the timeout has passed.
C23_WaitResponseTerminates ==
    /\ (pc = "wait") ~> (pc = "idle" /\ last_wait # None /\ last_wait.id = wait_id)
    /\ [][pc = "wait" /\ delivered' # delivered =>
             /\ pc' = "idle"
             /\ last_wait'.ret = responses[wait_id]
             /\ wait_id \notin DOMAIN responses']_vars
    /\ [][pc = "wait" /\ pc' = "idle" /\ last_wait'.ret = None =>
             /\ elapsed = "over"
             /\ wait_id \notin DOMAIN responses]_vars

\* C23 witness: the reader had exited, no response came, and the wait
\* returned nothing
C23_Witness ==
    /\ reader_pc = "exited"
    /\ pc = "idle"
    /\ last_wait # None
    /\ last_wait.ret = None
    /\ reader_log = <<>>

\* clear() was called on a completion state
Cleared == fn_in # None /\ "cleared" \in DOMAIN fn_in /\ fn_out # None

\* C24: clear() resets the completion state to empty: afterwards every
\* field equals that of a newly constructed state (no items, selected 0,
\* empty prefix, no request id, no resolve pair, no doc, scroll 0) and
\* is_active() is false.
C24_ClearEqualsNew ==
    Cleared => fn_out.v = new /\ ~is_active(fn_out.v)

\* parse_completions was applied to a response
ItemsParsed == fn_in # None /\ "response" \in DOMAIN fn_in /\ fn_out # None

\* C25: every CompletionItem parse_completions produces has an insert_text
\* with the placeholder markers stripped: it contains no occurrence of $0
\* or $1.
C25_NoMarkerLeft ==
    ItemsParsed =>
        \A i \in DOMAIN fn_out.v :
            /\ ~contains(fn_out.v[i].insert_text, <<"$", "0">>)
            /\ ~contains(fn_out.v[i].insert_text, <<"$", "1">>)

\* C26: is_running is true in every state in which a run is in flight:
\* from the return of the spawn_cargo_check call that started the run
\* until that run has published its result.
C26_RunningWhileInFlight ==
    \A t \in DOMAIN runners : runners[t] # "done" => is_running

\* the reader classifies the message it parsed
Classifies == reader_pc = "classify" /\ reader_pc' = "read"
HasId(json) == Get(json, "id") # None
HasResultOrError(json) ==
    Get(json, "result") # None \/ Get(json, "error") # None
HasMethod(json) == Get(json, "method") # None

\* C27: the reader classifies each parsed message by exactly one rule,
\* tried in this order: a message with an id and a result or error goes
\* into the response registry; otherwise a message with an id and a method
\* is appended to the server-request queue; otherwise it is discarded.  No
\* message ends up in both, and a notification changes neither.
C27_OneRuleInOrder ==
    [][Classifies =>
          LET json == reader_json
          IN  IF HasId(json) /\ HasResultOrError(json)
              THEN /\ \E id \in DOMAIN responses' : responses'[id] = json
                   /\ server_requests' = server_requests
              ELSE IF HasId(json) /\ HasMethod(json)
              THEN /\ server_requests' = Append(server_requests, json)
                   /\ responses' = responses
              ELSE /\ responses' = responses
                   /\ server_requests' = server_requests]_vars

\* C27, with the id taken into account: a message with an id and a result
\* or error goes into the registry under its id when the id is an integer
\* and is discarded when it is not; the rest as stated.
C27_OneRuleInOrderIntegerIds ==
    [][Classifies =>
          LET json == reader_json
              id == AsI64(Index(json, "id"))
          IN  IF HasId(json) /\ HasResultOrError(json)
              THEN /\ server_requests' = server_requests
                   /\ IF id # None
                      THEN /\ DOMAIN responses' = DOMAIN responses \cup {id.v}
                           /\ responses'[id.v] = json
                           /\ \A i \in DOMAIN responses \ {id.v} :
                                  responses'[i] = responses[i]
                      ELSE responses' = responses
              ELSE IF HasId(json) /\ HasMethod(json)
              THEN /\ server_requests' = Append(server_requests, json)
                   /\ responses' = responses
              ELSE /\ responses' = responses
                   /\ server_requests' = server_requests]_vars

\* C27 witness: a message with an id, a method and a result was classified
\* by the first rule: it is in the registry and the queue is as it was
C27_Witness ==
    /\ reader_pc = "read"
    /\ Len(reader_log) = 1
    /\ HasId(reader_log[1]) /\ HasMethod(reader_log[1])
    /\ Get(reader_log[1], "result") # None
    /\ 2 \in DOMAIN responses
    /\ responses[2] = reader_log[1]
    /\ server_requests = <<>>

\* every header block the server wrote so far has a valid Content-Length
HeadersValid ==
    \A i \in DOMAIN server_log : server_log[i].kind # "bad_header"

\* C28: a framed message whose body has exactly Content-Length bytes but
\* is not valid JSON is dropped without terminating the reader (which ends
\* only when the server's output does) and without touching the registry
\* or the server-request queue, and the well-formed messages after it are
\* delivered: whenever the reader waits for more input it has parsed every
\* well-formed message written so far.
C28_BadJsonDropped ==
    /\ [](HeadersValid /\ ReaderWaits => reader_log = GoodMessages(server_log))
    /\ [](reader_pc = "exited" => server_exited)
    /\ [][(/\ reader_pc = "read" /\ reader_pc' = "read"
           /\ Len(server_stdout') < Len(server_stdout)) =>
              /\ responses' = responses
              /\ server_requests' = server_requests
              /\ reader_log' = reader_log]_vars

\* C28 witness: the server wrote a frame that is no JSON and a response
\* behind it; the reader dropped the one and stored the other
C28_Witness ==
    /\ Len(server_log) = 2
    /\ server_log[1].kind = "bad_json"
    /\ server_log[2].kind = "good"
    /\ reader_log = <<server_log[2].json>>
    /\ reader_pc = "read"
    /\ ~server_exited
    /\ \E id \in DOMAIN responses : responses[id] = server_log[2].json

\* the directory of the lint command was chosen for a file
DirChosen == fn_in # None /\ "cwd" \in DOMAIN fn_in /\ fn_out # None

\* the directories above a file, its own first; those holding a manifest
Ancestors(file) ==
    {IF i = 1 THEN <<"/">> ELSE SubSeq(file, 1, i - 1) :
        i \in {j \in DOMAIN file : file[j] = "/"}}
HasManifest(dir) ==
    PathJoin(dir, <<"C", "a", "r", "g", "o", ".", "t", "o", "m", "l">>) \in Files

\* C29: the lint command runs in the nearest ancestor directory of the
\* edited file that holds Cargo.toml, walking up from the file's own
\* directory; when no ancestor holds one, it runs in the edited file's own
\* directory.
C29_RunsInProjectOrFileDir ==
    DirChosen =>
        LET projects == {d \in Ancestors(fn_in.file) : HasManifest(d)}
        IN  IF projects # {}
            THEN /\ fn_out.v \in projects
                 /\ \A d \in projects : Len(d) <= Len(fn_out.v)
            ELSE Some(fn_out.v) = Parent(fn_in.file)

\* what the i-th line of the output gives when it is the only line
Alone(i) ==
    parse_diagnostics(Stdout(<<Lines(fn_in.output)[i]>>), TargetFile,
                      find_project_dir(TargetFile))
\* every span of the record names a file, and none resolves to the edited one
SpansElsewhere(rec) ==
    /\ SpansOf(rec) # <<>>
    /\ \A k \in DOMAIN SpansOf(rec) :
          ResolvedFile(SpansOf(rec)[k]) \notin {None, Some(TargetFile)}

\* C30: parse_diagnostics treats the lines as independent records: the
\* diagnostics are those each line gives on its own, in the order of the
\* lines; only a compiler-message of level error or warning can give one; a
\* record of another reason or level, a record whose span resolves to a
\* file other than the edited one, and a line that is no JSON give
\* nothing and do not keep later lines from being parsed.
C30_LinesIndependent ==
    Parsed =>
        /\ fn_out.v = Flatten([i \in DOMAIN fn_in.records |-> Alone(i)])
        /\ \A i \in DOMAIN fn_in.records :
              LET rec == fn_in.records[i]
              IN  /\ Len(Alone(i)) <= 1
                  /\ Alone(i) # <<>> =>
                        /\ IsCompilerMessage(rec)
                        /\ HasSeverity(rec, S_ERROR) \/ HasSeverity(rec, S_WARNING)
                  /\ (rec # None /\ IsCompilerMessage(rec) /\ SpansElsewhere(rec))
                        => Alone(i) = <<>>

\* C30 witness: a line that is no JSON, then an error in the edited file:
\* the second line's diagnostic is the one kept
C30_Witness ==
    /\ Parsed
    /\ Len(fn_in.records) = 2
    /\ fn_in.records[1] = None
    /\ fn_in.records[2] = CargoRecords[1]
    /\ Len(fn_out.v) = 1
    /\ fn_out.v[1].message = <<"m", "1">>

\* the latest call on the completion state was op
Called(op) ==
    fn_in # None /\ "op" \in DOMAIN fn_in /\ fn_in.op = op /\ fn_out # None

\* C31: on a list of n >= 1 items move_down sets selected to
\* (selected + 1) mod n and move_up sets it to (selected - 1) mod n (index
\* 0 goes to n - 1); every such move clears doc; on an empty list both
\* change nothing.
C31_MovesWrapAround ==
    (Called("move_down") \/ Called("move_up")) =>
        LET before == fn_in.before
            after == fn_out.v
            n == Len(before.items)
            step == IF fn_in.op = "move_down" THEN 1 ELSE n - 1
        IN  IF n >= 1
            THEN /\ after.selected = (before.selected + step) % n
                 /\ after.doc = None
                 /\ after.items = before.items
            ELSE after = before

\* C31 witness: move_up on the first of three items, its documentation
\* shown, selected the last
C31_Witness ==
    /\ Called("move_up")
    /\ Len(fn_in.before.items) = 3
    /\ fn_in.before.selected = 0
    /\ fn_in.before.doc # None
    /\ fn_out.v.selected = 2
    /\ fn_out.v.doc = None

\* the selection of c points into its items, and is 0 when there are none;
\* selected_item() is present exactly when is_active()
InRange(c) ==
    /\ c.items # <<>> => c.selected < Len(c.items)
    /\ c.items = <<>> => c.selected = 0
    /\ selected_item(c) # None <=> is_active(c)

\* C34 as stated: starting from a state with selected < len(items) or items
\* empty, after any sequence of move_up, move_down, filter and clear,
\* selected < len(items) whenever items is non-empty and selected = 0
\* whenever items is empty, so selected_item() is present exactly when
\* is_active() is true.
C34_SelectionInRange == InRange(completion)

\* C34, amended: starting from a state with selected < len(items), or with
\* items empty and selected = 0, each of move_up, move_down, filter and clear
\* leads to such a state again, hence so does any sequence of them; and in
\* such a state selected_item() is present exactly when is_active() is true.
C34_SelectionStaysInRange == [][InRange(completion) => InRange(completion')]_vars

\* a filter that kept fewer items than the selection's index: the selection
\* is the last item kept
C34_Witness ==
    /\ Called("filter")
    /\ InRange(fn_in.before)
    /\ completion.items # <<>>
    /\ fn_in.before.selected >= Len(completion.items)
    /\ completion.selected = Len(completion.items) - 1

\* the elements a completion response lists: those of result when it is an
\* array, those of result.items when that is one; None for any other
\* response
Elements(response) ==
    IF "result" \notin DOMAIN response.v THEN None
    ELSE IF response.v.result.k = "arr" THEN Some(response.v.result.v)
    ELSE IF /\ response.v.result.k = "obj"
            /\ "items" \in DOMAIN response.v.result.v
            /\ response.v.result.v.items.k = "arr"
         THEN Some(response.v.result.v.items.v)
    ELSE None
HasStringLabel(element) ==
    /\ element.k = "obj"
    /\ "label" \in DOMAIN element.v
    /\ element.v.label.k = "str"

\* C32: parse_completions accepts both result shapes: for a bare array or
\* an object with an items array it returns one CompletionItem per element
\* that has a string label, in response order, each keeping the element's
\* raw payload unchanged; for any other response it returns the empty list.
C32_BothShapesParsed ==
    ItemsParsed =>
        LET elements == Elements(fn_in.response)
            labelled == IF elements = None THEN {}
                        ELSE {i \in DOMAIN elements.v : HasStringLabel(elements.v[i])}
        IN  /\ Len(fn_out.v) = Cardinality(labelled)
            /\ \A k \in DOMAIN fn_out.v :
                  /\ fn_out.v[k].raw = elements.v[Nth(labelled, k)]
                  /\ fn_out.v[k].label = elements.v[Nth(labelled, k)].v.label.v

\* C32 witness: an items list of two elements gave two items in that order
C32_Witness ==
    /\ ItemsParsed
    /\ Get(Get(fn_in.response, "result"), "items") # None
    /\ Len(fn_out.v) = 2
    /\ fn_out.v[1].raw = RawItem(<<"b">>, "textEdit")
    /\ fn_out.v[2].raw = RawItem(<<"a">>, "label")

\* the integer id of a message, None when it has none
IdOf(json) == AsI64(Index(json, "id"))

\* C36: every entry of the response registry is stored under the key equal
\* to the integer id field of the stored message, so get_response(id) only
\* ever returns a message whose id is id; and a response whose id is not an
\* integer is never stored (nor, then, returned).
C36_KeyedByIntegerId ==
    /\ \A id \in DOMAIN responses : IdOf(responses[id]) = Some(id)
    /\ last_get # None /\ last_get.ret # None =>
           IdOf(last_get.ret) = Some(last_get.id)
    /\ \A i \in DOMAIN reader_log :
           IdOf(reader_log[i]) = None
               => /\ \A id \in DOMAIN responses : responses[id] # reader_log[i]
                  /\ \A j \in DOMAIN delivered : delivered[j] # reader_log[i]

\* C36 witness: a response with a string id was classified and a response
\* with an integer id was returned by get_response for that id; the registry
\* is empty
C36_Witness ==
    /\ reader_pc = "read"
    /\ \E i \in DOMAIN reader_log :
           /\ HasId(reader_log[i]) /\ HasResultOrError(reader_log[i])
           /\ IdOf(reader_log[i]) = None
    /\ last_get # None /\ last_get.ret # None
    /\ IdOf(last_get.ret) = Some(last_get.id)
    /\ DOMAIN responses = {}

\* the messages a step handed to send_raw
NewlySent == SubSeq(sent', Len(sent) + 1, Len(sent'))

\* C37: once the server has exited, so that writing to its stdin fails, the
\* sending operations still run to their end: nothing reaches the server,
\* each request (request_completion, resolve_completion, initialize) still
\* carries and returns an id that no earlier request carried and advances
\* the counter, did_change still advances the version, and the client's
\* thread goes on.
C37_SendsSurviveServerExit ==
    [][server_exited /\ sent' # sent =>
          /\ server_stdin' = server_stdin
          /\ sent' = sent \o NewlySent
          /\ \A i \in DOMAIN NewlySent :
                 /\ IsRequest(NewlySent[i]) =>
                        /\ Index(NewlySent[i], "id") = JInt(next_id)
                        /\ next_id' = next_id + 1
                        /\ \A j \in DOMAIN sent :
                               IsRequest(sent[j]) =>
                                   Index(sent[j], "id") # JInt(next_id)
                 /\ IsDidChange(NewlySent[i]) =>
                        /\ version' = version + 1
                        /\ DocVersion(NewlySent[i]) = version'
          /\ pc' \in {"idle", "ack", "wait"}]_vars

\* C37 witness: the server exited before anything was sent; a did_change,
\* a request and another request followed, with ids 1 and 2
C37_Witness ==
    /\ server_exited
    /\ server_stdin = <<>>
    /\ writer # <<>>
    /\ Len(ChangesSent) = 1
    /\ Len(RequestsSent) = 2
    /\ Index(RequestsSent[2], "method") = JStr(M_resolve)
    /\ Index(RequestsSent[2], "id") = JInt(2)
    /\ next_id = 3
    /\ pc = "idle"

\* the wait for id has ended without a response
TimedOut(id) == last_wait # None /\ last_wait.id = id /\ last_wait.ret = None

\* C38: when no reply to the initialize request arrives within the timeout,
\* the step that ends the wait finds the timeout over, still sends the
\* initialized notification and returns to the caller; a reply to that
\* request which the reader parses afterwards is stored in the registry
\* under the request's id, and an entry nobody is waiting for stays as it is.
C38_TimeoutStillInitialized ==
    /\ [][pc = "wait" /\ pc' = "idle" /\ last_wait'.ret = None =>
             /\ elapsed = "over"
             /\ last_wait'.id = wait_id
             /\ Len(sent') = Len(sent) + 1
             /\ SubSeq(sent', 1, Len(sent)) = sent
             /\ IsInitialized(sent'[Len(sent')])]_vars
    /\ [][\A id \in 1..MaxRequests :
             (/\ Classifies
              /\ TimedOut(id)
              /\ IdOf(reader_json) = Some(id)
              /\ HasResultOrError(reader_json))
                 => /\ id \in DOMAIN responses'
                    /\ responses'[id] = reader_json]_vars
    /\ [][\A id \in DOMAIN responses :
             ~(pc = "wait" /\ wait_id = id)
                 => /\ id \in DOMAIN responses'
                    /\ responses'[id] = responses[id]]_vars

\* C38 witness: the wait for request 1 timed out, initialized was sent, the
\* reply to request 1 came afterwards and is in the registry, and the
\* client has since sent its second request
C38_Witness ==
    /\ Len(sent) = 3
    /\ IsInitialize(sent[1]) /\ Index(sent[1], "id") = JInt(1)
    /\ IsInitialized(sent[2])
    /\ delivered = <<>>
    /\ 1 \in DOMAIN responses
    /\ IdOf(responses[1]) = Some(1)
    /\ pc = "wait"
    /\ wait_id = 2

\* C39: get_response(id) removes at most the registry entry for id and
\* leaves the entries for other ids unchanged: an entry leaves the registry
\* only in a get_response call for its own id, which returns it and touches
\* nothing else; until then it stays (the reader may replace it with
\* another response that carries the same id).
C39_OnlyOwnEntryRemoved ==
    [][\A id \in DOMAIN responses :
          \/ /\ id \in DOMAIN responses'
             /\ \/ responses'[id] = responses[id]
                \/ Classifies /\ IdOf(reader_json) = Some(id)
          \/ /\ id \notin DOMAIN responses'
             /\ last_get'.id = id
             /\ last_get'.ret = responses[id]
             /\ \A other \in DOMAIN responses \ {id} :
                    /\ other \in DOMAIN responses'
                    /\ responses'[other] = responses[other]]_vars

\* C39 witness: the response for id 2 arrived first, then the one for id 1;
\* get_response(1) returned its response and the entry for 2 is still there
C39_Witness ==
    /\ Len(reader_log) = 2
    /\ IdOf(reader_log[1]) = Some(2)
    /\ last_get # None
    /\ last_get.id = 1
    /\ last_get.ret = reader_log[2]
    /\ DOMAIN responses = {2}
    /\ responses[2] = reader_log[1]

====
